---- MODULE Spec2Model ----
(***************************************************************************)
(* Model of the resumable per-video, per-stage state ledger                *)
(* (utils/state_manager.py, class StateManager) and of the orchestrator    *)
(* that drives it (pipeline_new.py, class AutomatedPipeline).              *)
(*                                                                         *)
(* A state table maps a video name to a record {status, stages, error}.    *)
(* Timestamps (started_at, completed_at, failed_at) and the metadata dicts *)
(* are wall-clock / free-form values no transition reads; they are left    *)
(* out.  A stage record keeps its status, whether it has an 'output' key   *)
(* with a non-empty path, and whether it has a non-empty 'error' message.  *)
(***************************************************************************)
EXTENDS Integers, Sequences, FiniteSets, TLC

(* ------------------------------ bounds --------------------------------- *)
\* number of StateManager calls explored in the free-call specification
MaxCalls == 1
\* number of process crashes explored
MaxCrashes == 1
\* number of _save_state calls that raise (exception logged and swallowed)
MaxFaults == 1
\* number of runs of the orchestrator (process starts) explored
\* chunk_video: the largest frame count, fps (as a fraction num/den) and chunk
\* duration tried, beside the worked example
MaxFrames == 5

MaxFpsNum == 3

MaxFpsDen == 2

MaxChunkDuration == 2

\* detect_events_in_chunk: the longest stream of frames and the largest
\* min_track_length tried
MaxStreamFrames == 3

MaxTrackLength == 2

\* how far the clock read by datetime.now() advances
MaxClock == 1

\* the active chunks of one detect_events_batch call
MaxBatchChunks == 2

\* filter_inactive_chunks: the longest chunk list and the most sampled frames
\* of a chunk
MaxFilterChunks == 3

MaxSampled == 2

\* the frames of a chunk given to _detect_motion
MaxVideoFrames == 4

MaxRuns == 2

(* --------------------------- program constants ------------------------- *)
STATUS_NOT_STARTED == "not_started"
STATUS_PROCESSING == "processing"
STATUS_COMPLETED == "completed"
STATUS_FAILED == "failed"

STAGE_CONVERSION == "conversion"
STAGE_CHUNKING == "chunking"
STAGE_FILTERING == "filtering"
STAGE_DETECTION == "detection"
STAGE_LABELING == "labeling"
STAGE_REVIEW == "review"

ALL_STAGES ==
  << STAGE_CONVERSION, STAGE_CHUNKING, STAGE_FILTERING,
     STAGE_DETECTION, STAGE_LABELING, STAGE_REVIEW >>

StageSet == { ALL_STAGES[i] : i \in 1..Len(ALL_STAGES) }

\* the one stage name the program passes that is not in ALL_STAGES
PIPELINE_KEY == "pipeline"

\* every key the 'stages' dict of a video can hold
StageKeys == StageSet \cup {PIPELINE_KEY}

\* Python's None, as returned by get_next_pending_stage
None == "none"

\* video names of the model (file names of the source videos)
Videos == {"a.dav", "b.dav"}

(* --------------------------- table values ------------------------------ *)
\* a key that is not in the dict
NoStage == [status |-> "absent", output |-> FALSE, error |-> FALSE]

\* {'status': 'not_started'}
FreshStage == [status |-> STATUS_NOT_STARTED, output |-> FALSE, error |-> FALSE]

\* a video name that is not a key of the table
AbsentVideo ==
  [status |-> "absent", stages |-> [k \in StageKeys |-> NoStage], error |-> None]

\* the record initialize_video stores
NewVideo ==
  [status |-> STATUS_NOT_STARTED,
   stages |-> [k \in StageKeys |-> IF k \in StageSet THEN FreshStage ELSE NoStage],
   error |-> None]

\* the empty table {}
EmptyTable == [v \in Videos |-> AbsentVideo]

IndexOf(s) == CHOOSE i \in 1..Len(ALL_STAGES) : ALL_STAGES[i] = s

(* ----------------------- StateManager, pure part ----------------------- *)
Has(t, v) == t[v].status # "absent"

\* a variant of initialize_video without the test for a known video: used to
\* show that C38 depends on it
initialize_video_always(t, v) == [t EXCEPT ![v] = NewVideo]

\* if video_name not in self.state: self.state[video_name] = {...}
initialize_video(t, v) ==
  IF Has(t, v) THEN t ELSE [t EXCEPT ![v] = NewVideo]

mark_stage_start_tbl(t, v, s) ==
  [t EXCEPT ![v].stages[s] =
              [status |-> STATUS_PROCESSING, output |-> FALSE, error |-> FALSE],
            ![v].status = STATUS_PROCESSING]

all_completed(vs) ==
  \A i \in 1..Len(ALL_STAGES) : vs.stages[ALL_STAGES[i]].status = STATUS_COMPLETED

\* a variant of mark_stage_complete that leaves out the aggregate update
\* (lines 176-185): used to show that C10 depends on it
mark_stage_complete_stage_only(t, v, s, out) ==
  [t EXCEPT ![v].stages[s].status = STATUS_COMPLETED,
            ![v].stages[s].output = (@ \/ out)]

\* out: an output_path that is not None/empty was passed
mark_stage_complete_tbl(t, v, s, out) ==
  LET t1 == [t EXCEPT ![v].stages[s].status = STATUS_COMPLETED,
                      ![v].stages[s].output = (@ \/ out)]
  IN IF all_completed(t1[v])
       THEN [t1 EXCEPT ![v].status = STATUS_COMPLETED]
       ELSE t1

\* msg: the error_message passed is not empty
mark_stage_failed_tbl(t, v, s, msg) ==
  [t EXCEPT ![v].stages[s] =
              [status |-> STATUS_FAILED, output |-> FALSE, error |-> msg],
            ![v].status = STATUS_FAILED,
            ![v].error = s]

reset_video_tbl(t, v) == [t EXCEPT ![v] = AbsentVideo]

reset_stages_from_tbl(t, v, s) ==
  [t EXCEPT ![v].stages =
              [k \in StageKeys |->
                 IF k \in StageSet /\ IndexOf(k) >= IndexOf(s)
                   THEN FreshStage ELSE @[k]],
            ![v].status = STATUS_NOT_STARTED,
            ![v].error = None]

\* a variant of reset_stage_only that resets the later stages as well, as
\* reset_stages_from does: used to show that C16 tells the two resets apart
reset_stage_only_and_later(t, v, s) ==
  [t EXCEPT ![v].stages =
              [k \in StageKeys |->
                 IF k \in StageSet /\ IndexOf(k) >= IndexOf(s)
                   THEN FreshStage ELSE @[k]]]

reset_stage_only_tbl(t, v, s) ==
  [t EXCEPT ![v].stages[s] = FreshStage]

RECURSIVE FirstNotCompleted(_, _)
FirstNotCompleted(vs, i) ==
  IF i > Len(ALL_STAGES) THEN None
  ELSE IF vs.stages[ALL_STAGES[i]].status # STATUS_COMPLETED THEN ALL_STAGES[i]
  ELSE FirstNotCompleted(vs, i + 1)

\* a variant of get_next_pending_stage that leaves out the test for a failed
\* video (line 246): used to show that C8 depends on it
get_next_pending_stage_no_failed(t, v) ==
  IF ~Has(t, v) THEN STAGE_CONVERSION
  ELSE IF t[v].status = STATUS_COMPLETED THEN None
  ELSE FirstNotCompleted(t[v], 1)

get_next_pending_stage(t, v) ==
  IF ~Has(t, v) THEN STAGE_CONVERSION
  ELSE IF t[v].status \in {STATUS_COMPLETED, STATUS_FAILED} THEN None
  ELSE FirstNotCompleted(t[v], 1)

is_video_completed(t, v) ==
  IF ~Has(t, v) THEN FALSE ELSE t[v].status = STATUS_COMPLETED

is_video_failed(t, v) ==
  IF ~Has(t, v) THEN FALSE ELSE t[v].status = STATUS_FAILED

(* ------------------------- the state file ------------------------------ *)
\* the file does not exist
NoFile == [kind |-> "missing", table |-> EmptyTable]
\* the file was truncated by open(..., 'w') and not (fully) written
Truncated == [kind |-> "truncated", table |-> EmptyTable]
\* the file holds the JSON of a whole table
FileOf(t) == [kind |-> "table", table |-> t]

_load_state(f) == IF f.kind = "table" THEN f.table ELSE EmptyTable

\* outcomes of one _save_state: written; open() raised (file untouched);
\* json.dump raised after the truncation (exception logged and swallowed)
WriteOutcome == {"ok", "open_failed", "dump_failed"}

_save_state(f, t, o) ==
  CASE o = "ok" -> FileOf(t)
    [] o = "open_failed" -> f
    [] OTHER -> Truncated

\* the tables a mutating call hands to _save_state, in order
Writes(op, t, v, s, arg) ==
  LET init == IF Has(t, v) THEN << >> ELSE << initialize_video(t, v) >>
      t1 == initialize_video(t, v)
  IN CASE op = "initialize_video" -> init
       [] op = "mark_stage_start" -> init \o << mark_stage_start_tbl(t1, v, s) >>
       [] op = "mark_stage_complete" ->
            IF t1[v].stages[s].status = "absent"
              THEN init   \* KeyError: raised before any mutation
              ELSE init \o << mark_stage_complete_tbl(t1, v, s, arg) >>
       [] op = "mark_stage_failed" -> init \o << mark_stage_failed_tbl(t1, v, s, arg) >>
       [] op = "reset_video" ->
            IF Has(t, v) THEN << reset_video_tbl(t, v) >> ELSE << >>
       [] op = "reset_stages_from" ->
            IF s \in StageSet THEN init \o << reset_stages_from_tbl(t1, v, s) >> ELSE init
       [] op = "reset_stage_only" ->
            IF s \in StageSet THEN init \o << reset_stage_only_tbl(t1, v, s) >> ELSE init
       [] OTHER -> << >>

\* the in-memory table when the call returns
After(t, W) == IF W = << >> THEN t ELSE W[Len(W)]

RECURSIVE SaveAll(_, _, _, _)
SaveAll(f, W, outs, i) ==
  IF i > Len(W) THEN f ELSE SaveAll(_save_state(f, W[i], outs[i]), W, outs, i + 1)

\* the last table that reached the file whole
RECURSIVE LastWhole(_, _, _, _)
LastWhole(d, W, outs, i) ==
  IF i > Len(W) THEN d
  ELSE LastWhole(IF outs[i] = "ok" THEN W[i] ELSE d, W, outs, i + 1)


(* ------------------------------- state --------------------------------- *)
VARIABLES
  state,       \* StateManager.state: the in-memory table
  file,        \* the contents of the state file
  durable,     \* history: the last table that reached the state file whole
  phase,       \* "running", "crashed" (process killed), "restarted" (just loaded)
  lastOp,      \* history: the last StateManager call issued
  crashSet,    \* history: tables a load may return after a crash inside a call
  calls,       \* number of StateManager calls issued by the free-call environment
  crashes,     \* number of crashes so far
  faults,      \* number of _save_state calls that raised so far
  ioFaults,    \* environment: whether writes of the state file can raise
  pc,          \* orchestrator: where the process is ("idle": no process)
  mode,        \* environment: the input directory holds .dav files ("dav":
               \* run's main loop) or none ("mp4": the converted MP4s are used)
  todo,        \* orchestrator: the videos the loop of run() has still to visit
  cur,         \* orchestrator: the video being processed
  next_stage,  \* orchestrator: the local next_stage / the stage being executed
  runs,        \* number of runs started
  mp4,         \* per video, the converted MP4 in videos_converted/
  art,         \* per output directory and stage, the stage's JSON artifact
  resetDone,   \* history: the videos an explicit reset was performed for
  catalog,     \* environment: the sorted list of the source videos on disk
  peer,        \* a second process on the same state file: its StateManager.state
  peerCalls,   \* number of StateManager calls the second process issued
  chunk_pc,    \* chunk_video: "off", "call", "loop", "returned" or "raised"
  cap,         \* chunk_video: what cv2.VideoCapture reports for the source
  chunk_duration,   \* VideoChunker.chunk_duration (seconds)
  frames_per_chunk, \* chunk_video: local frames_per_chunk
  num_chunks,       \* chunk_video: local num_chunks
  chunk_idx,        \* chunk_video: the loop variable
  chunks_metadata,  \* chunk_video: the list that is returned
  chunks_index,     \* the file chunks_index.json in the output directory
  chunk_error,      \* chunk_video: the exception raised, if any
  use_gpu,          \* VideoChunker.use_gpu and ffmpeg found on the PATH
  extractions,      \* what each extraction of the call did: frames written, and
                    \* whether the 'incompleto' warning was logged
  det_pc,           \* detect_events_in_chunk: "off", "track", "filter", "returned"
  det_config,       \* the thresholds of the EventDetector and chunk_info['fps']
  boxes_kind,       \* the type of boxes.id/conf/xyxy: python lists or tensors
  results,          \* what detector.track yields for the chunk, frame by frame
  frame_count,      \* detect_events_in_chunk: local frame_count
  tracks,           \* detect_events_in_chunk: local tracks, in insertion order
  track_pos,        \* position of the loop over tracks.items()
  filter_stats,     \* detect_events_in_chunk: local filter_stats
  events,           \* detect_events_in_chunk: the list that is returned
  now,              \* environment: the clock read by datetime.now()
  first_events,     \* history: the events an earlier call returned for results
  batch_pc,         \* detect_events_batch: "off", "loop", "chunk", "returned"
  batch_total,      \* detect_events_batch: len(active_chunks)
  batch_idx,        \* detect_events_batch: idx of the loop over active_chunks
  all_events,       \* detect_events_batch: the list that is returned
  filt_pc,          \* filter_inactive_chunks: "off", "loop", "returned", "raised"
  filt_config,      \* the thresholds of the ActivityFilter
  filt_chunks,      \* filter_inactive_chunks: the argument chunks_metadata
  filt_idx,         \* filter_inactive_chunks: the chunks visited so far
  active_chunks,    \* filter_inactive_chunks: local active_chunks
  stats,            \* filter_inactive_chunks: local stats
  filt_log,         \* history: per chunk visited, which phases ran and their result
  filt_error,       \* filter_inactive_chunks: the exception raised, if any
  mot_pc,           \* _detect_motion: "off", "open", "loop", "returned"
  mot_config,       \* motion_threshold and motion_sample_rate
  video,            \* the frames of the chunk, each a sequence of gray values
  cap_pos,          \* the position of the VideoCapture: frames consumed so far
  prev_gray,        \* _detect_motion: local prev_gray, with the frame's index
  motion_detected,  \* _detect_motion: local motion_detected, the value returned
  read_log,         \* the frames decoded by cap.read(), and what each was
                    \* compared against
  label_pc,         \* generate_proposal: "off", "call" or "returned"
  label_config,     \* the thresholds of the AutoLabeler
  label_event,      \* generate_proposal: the argument event
  proposal,         \* generate_proposal: the proposal returned
  config            \* environment: what is wrong with config.yaml ("none": nothing)

smVars ==
  << state, file, durable, phase, lastOp, crashSet, calls, crashes, faults, ioFaults >>

orchVars == << pc, mode, todo, cur, next_stage, runs, mp4, art, resetDone, catalog >>

workerVars == << peer, peerCalls >>

chunkVars ==
  << chunk_pc, cap, chunk_duration, frames_per_chunk, num_chunks, chunk_idx,
     chunks_metadata, chunks_index, chunk_error, use_gpu, extractions >>

batchVars == << batch_pc, batch_total, batch_idx, all_events >>

detVars ==
  << det_pc, det_config, boxes_kind, results, frame_count, tracks, track_pos, filter_stats,
     events, now, first_events, batchVars >>

motVars ==
  << mot_pc, mot_config, video, cap_pos, prev_gray, motion_detected, read_log >>

filtVars ==
  << filt_pc, filt_config, filt_chunks, filt_idx, active_chunks, stats, filt_log,
     filt_error, motVars >>

labelVars == << label_pc, label_config, label_event, proposal >>

auxVars == << workerVars, chunkVars, detVars, filtVars, labelVars, config >>

\* what a step of one component leaves alone
notWorkerVars == << chunkVars, detVars, filtVars, labelVars, config >>

notChunkVars == << smVars, orchVars, workerVars, config, detVars, filtVars, labelVars >>

notDetVars == << smVars, orchVars, workerVars, config, chunkVars, filtVars, labelVars >>

notFiltVars == << smVars, orchVars, workerVars, config, chunkVars, detVars, labelVars >>

notLabelVars == << smVars, orchVars, workerVars, config, chunkVars, detVars, filtVars >>

vars == << smVars, orchVars, auxVars >>

\* no second process and no chunk_video call
NoCap == [opened |-> FALSE, total_frames |-> 0, fps |-> [num |-> 0, den |-> 1]]

ChunkIdle ==
  /\ chunk_pc = "off"
  /\ cap = NoCap
  /\ chunk_duration = 0
  /\ frames_per_chunk = 0
  /\ num_chunks = 0
  /\ chunk_idx = 0
  /\ chunks_metadata = << >>
  /\ chunks_index = "none"
  /\ chunk_error = "none"
  /\ use_gpu = FALSE
  /\ extractions = << >>

\* no detect_events_batch call
NoBatch ==
  /\ batch_pc = "off"
  /\ batch_total = 0
  /\ batch_idx = 0
  /\ all_events = << >>

\* no detect_events_in_chunk call
DetIdle ==
  /\ NoBatch
  /\ det_pc = "off"
  /\ det_config = "none"
  /\ boxes_kind = "none"
  /\ results = << >>
  /\ frame_count = 0
  /\ tracks = << >>
  /\ track_pos = 0
  /\ filter_stats = "none"
  /\ events = << >>
  /\ now = 0
  /\ first_events = << >>

\* no filter_inactive_chunks call
MotIdle ==
  /\ mot_pc = "off"
  /\ mot_config = << >>
  /\ video = << >>
  /\ cap_pos = 0
  /\ prev_gray = << >>
  /\ motion_detected = FALSE
  /\ read_log = << >>

\* no filter_inactive_chunks call
NoFilterCall ==
  /\ filt_pc = "off"
  /\ filt_config = [min_person_frames |-> 0]
  /\ filt_chunks = << >>
  /\ filt_idx = 0
  /\ active_chunks = << >>
  /\ stats = << >>
  /\ filt_log = << >>
  /\ filt_error = "none"

FiltIdle == NoFilterCall /\ MotIdle

\* no generate_proposal call
LabelIdle ==
  /\ label_pc = "off"
  /\ label_config = << >>
  /\ label_event = << >>
  /\ proposal = << >>

\* config.yaml is complete
NoConfigError == config = "none"

AuxIdle ==
  /\ FiltIdle
  /\ LabelIdle
  /\ DetIdle
  /\ peer = << >>
  /\ peerCalls = 0
  /\ chunk_pc = "off"
  /\ cap = NoCap
  /\ chunk_duration = 0
  /\ frames_per_chunk = 0
  /\ num_chunks = 0
  /\ chunk_idx = 0
  /\ chunks_metadata = << >>
  /\ chunks_index = "none"
  /\ chunk_error = "none"
  /\ use_gpu = FALSE
  /\ extractions = << >>

\* the stages that leave a JSON artifact in the output directory
ArtStages == {STAGE_CHUNKING, STAGE_FILTERING, STAGE_DETECTION, STAGE_LABELING}

\* output directories: data_dir/<video_base> per video (dav path) and data_dir
\* itself (mp4 path)
Dirs == Videos \cup {"shared"}

NoOp == [op |-> "none", video |-> "none", stage |-> "none", by |-> "none"]

\* tables an earlier dav-path run of the orchestrator leaves in the state file:
\* the first k stages completed (each with its output path), stage k+1 not yet
\* started, processing or failed
Progress(k, st) ==
  [status |-> IF k = Len(ALL_STAGES) THEN STATUS_COMPLETED
              ELSE IF st = STATUS_FAILED THEN STATUS_FAILED
              ELSE STATUS_PROCESSING,
   stages |-> [s \in StageKeys |->
     IF s \notin StageSet THEN NoStage
     ELSE IF IndexOf(s) <= k
       THEN [status |-> STATUS_COMPLETED, output |-> TRUE, error |-> FALSE]
     ELSE IF IndexOf(s) = k + 1
       THEN [status |-> st, output |-> FALSE, error |-> (st = STATUS_FAILED)]
     ELSE FreshStage],
   error |-> IF k < Len(ALL_STAGES) /\ st = STATUS_FAILED THEN ALL_STAGES[k + 1] ELSE None]

\* the record run() leaves when _process_single_video raised while stage k+1
\* was not completed: mark_stage_failed(video, "pipeline", str(e))
PipelineFailed(k) ==
  [Progress(k, STATUS_PROCESSING) EXCEPT
     !.status = STATUS_FAILED,
     !.stages[PIPELINE_KEY] = [status |-> STATUS_FAILED, output |-> FALSE, error |-> TRUE],
     !.error = PIPELINE_KEY]

ProgressRecords ==
  { Progress(k, st) : k \in 0..(Len(ALL_STAGES) - 1),
                      st \in {STATUS_PROCESSING, STATUS_FAILED} }
  \cup { Progress(k, STATUS_NOT_STARTED) : k \in 1..Len(ALL_STAGES) }
  \cup { PipelineFailed(Len(ALL_STAGES) - 1), AbsentVideo, NewVideo }

\* the video the free-call environment passes; the other one is a bystander
\* whose record the calls must leave alone
CallVideos == {"a.dav"}

InitTables ==
  { [v \in Videos |-> IF v \in CallVideos THEN r ELSE Progress(2, STATUS_PROCESSING)] :
      r \in ProgressRecords }

(* ---------------- StateManager calls as transitions -------------------- *)
Outcomes(W) ==
  { o \in [1..Len(W) -> WriteOutcome] :
      Cardinality({ i \in 1..Len(W) : o[i] # "ok" })
        <= (IF ioFaults THEN MaxFaults - faults ELSE 0) }

NFaults(W, o) == Cardinality({ i \in 1..Len(W) : o[i] # "ok" })

\* one whole mutating call: every table it builds is handed to _save_state
Call(op, v, s, arg, by) ==
  LET W == Writes(op, state, v, s, arg) IN
  \E o \in Outcomes(W) :
    /\ state' = After(state, W)
    /\ file' = SaveAll(file, W, o, 1)
    /\ durable' = LastWhole(durable, W, o, 1)
    /\ faults' = faults + NFaults(W, o)
    /\ lastOp' = [op |-> op, video |-> v, stage |-> s, by |-> by]
    /\ crashSet' = {}
    /\ phase' = "running"
    /\ UNCHANGED ioFaults

\* the process is killed inside a call: before write k, during write k (after
\* open(..., 'w') truncated the file), or right after the last write
CrashIn(op, v, s, arg, by) ==
  LET W == Writes(op, state, v, s, arg) IN
  /\ W # << >>
  /\ \E k \in 1..Len(W), kind \in {"before", "during", "after"} :
       LET done == IF kind = "after" THEN Len(W) ELSE k - 1
           Wd == SubSeq(W, 1, done)
           ok == [i \in 1..done |-> "ok"]
       IN /\ kind = "after" => k = Len(W)
          /\ file' = IF kind = "during" THEN Truncated ELSE SaveAll(file, Wd, ok, 1)
          /\ durable' = LastWhole(durable, Wd, ok, 1)
          /\ crashSet' = { state, _load_state(file), After(state, W) }
  /\ state' = EmptyTable
  /\ lastOp' = [op |-> op, video |-> v, stage |-> s, by |-> by]
  /\ phase' = "crashed"
  /\ crashes' = crashes + 1
  /\ UNCHANGED << faults, ioFaults >>

Alive == phase \in {"running", "restarted"}

CanCall == Alive /\ pc = "api" /\ calls < MaxCalls

InitializeVideo(v) ==
  /\ CanCall
  /\ Call("initialize_video", v, "none", FALSE, "api")
  /\ calls' = calls + 1
  /\ UNCHANGED << crashes, orchVars, auxVars >>

MarkStageStart(v, s) ==
  /\ CanCall
  /\ Call("mark_stage_start", v, s, FALSE, "api")
  /\ calls' = calls + 1
  /\ UNCHANGED << crashes, orchVars, auxVars >>

MarkStageComplete(v, s, out) ==
  /\ CanCall
  /\ Call("mark_stage_complete", v, s, out, "api")
  /\ calls' = calls + 1
  /\ UNCHANGED << crashes, orchVars, auxVars >>

MarkStageFailed(v, s, msg) ==
  /\ CanCall
  /\ Call("mark_stage_failed", v, s, msg, "api")
  /\ calls' = calls + 1
  /\ UNCHANGED << crashes, orchVars, auxVars >>

ResetVideo(v) ==
  /\ CanCall
  /\ Call("reset_video", v, "none", FALSE, "api")
  /\ calls' = calls + 1
  /\ UNCHANGED << crashes, orchVars, auxVars >>

ResetStagesFrom(v, s) ==
  /\ CanCall
  /\ Call("reset_stages_from", v, s, FALSE, "api")
  /\ calls' = calls + 1
  /\ UNCHANGED << crashes, orchVars, auxVars >>

ResetStageOnly(v, s) ==
  /\ CanCall
  /\ Call("reset_stage_only", v, s, FALSE, "api")
  /\ calls' = calls + 1
  /\ UNCHANGED << crashes, orchVars, auxVars >>

MutatingOps ==
  { "initialize_video", "mark_stage_start", "mark_stage_complete",
    "mark_stage_failed", "reset_video", "reset_stages_from", "reset_stage_only" }

\* a kill -9 / power loss while one of the mutating calls runs
CrashInCall ==
  /\ CanCall
  /\ crashes < MaxCrashes
  /\ \E op \in MutatingOps, v \in CallVideos, s \in StageKeys :
       CrashIn(op, v, s, TRUE, "api")
  /\ calls' = calls + 1
  /\ UNCHANGED << orchVars, auxVars >>

\* a new process constructs its StateManager: __init__ runs _load_state
Restart ==
  /\ phase = "crashed"
  /\ pc = "api"
  /\ phase' = "restarted"
  /\ state' = _load_state(file)
  /\ lastOp' = NoOp
  /\ UNCHANGED << file, durable, crashSet, calls, crashes, faults, ioFaults >>
  /\ UNCHANGED << orchVars, auxVars >>

SMInitWith(io) ==
  /\ NoConfigError
  /\ \E t \in InitTables :
       /\ state = t
       /\ file = FileOf(t)
       /\ durable = t
  /\ phase = "running"
  /\ lastOp = NoOp
  /\ crashSet = {}
  /\ calls = 0
  /\ crashes = 0
  /\ faults = 0
  /\ ioFaults = io
  /\ pc = "api"
  /\ mode = "none"
  /\ todo = << >>
  /\ cur = "none"
  /\ next_stage = None
  /\ runs = 0
  /\ mp4 = [v \in Videos |-> "none"]
  /\ art = [d \in Dirs |-> [a \in ArtStages |-> "none"]]
  /\ resetDone = {}
  /\ catalog = << >>
  /\ AuxIdle

\* writes of the state file never fail
SMInit == SMInitWith(FALSE)

\* a write of the state file can fail (disk full, permissions)
SMIOInit == SMInitWith(TRUE)

SMNext ==
  \/ \E v \in CallVideos : InitializeVideo(v)
  \/ \E v \in CallVideos, s \in StageKeys : MarkStageStart(v, s)
  \/ \E v \in CallVideos, s \in StageKeys, out \in BOOLEAN : MarkStageComplete(v, s, out)
  \/ \E v \in CallVideos, s \in StageKeys, msg \in BOOLEAN : MarkStageFailed(v, s, msg)
  \/ \E v \in CallVideos : ResetVideo(v)
  \/ \E v \in CallVideos, s \in StageKeys : ResetStagesFrom(v, s)
  \/ \E v \in CallVideos, s \in StageKeys : ResetStageOnly(v, s)
  \/ CrashInCall
  \/ Restart

\* any sequence of StateManager calls, with crashes and restarts
SpecSM == SMInit /\ [][SMNext]_vars

\* the same, on a disk where a write of the state file can fail
SpecSMIO == SMIOInit /\ [][SMNext]_vars


(* ------------------------- the orchestrator ---------------------------- *)
\* videos_converted/<base>_converted.mp4 exists
Mp4Exists(v) == mp4[v] # "none"

\* create_output_structure(data_dir / video_base) in _process_single_video,
\* create_output_structure(data_dir) in _process_from_mp4
DirOf(v) == IF mode = "dav" THEN v ELSE "shared"

Succ(s) == ALL_STAGES[IndexOf(s) + 1]
Pred(s) == ALL_STAGES[IndexOf(s) - 1]

StartOf(s) == [op |-> "mark_stage_start", stage |-> s]
FailOf(s) == [op |-> "mark_stage_failed", stage |-> s]

\* _process_single_video resuming at ns, a stage after conversion: the artifacts
\* of the stages before ns are looked up and loaded, then the first StateManager
\* call is issued. A JSON file that does not parse, and the unbound local
\* 'proposals' when ns is review, raise; run() records that under "pipeline".
ResumeStep(ns, v) ==
  IF ~Mp4Exists(v) THEN FailOf(STAGE_CONVERSION)
  ELSE IF ns = STAGE_CHUNKING THEN StartOf(ns)
  ELSE IF art[v][STAGE_CHUNKING] = "none" THEN FailOf(STAGE_CHUNKING)
  ELSE IF art[v][STAGE_CHUNKING] = "partial" THEN FailOf(PIPELINE_KEY)
  ELSE IF ns = STAGE_FILTERING THEN StartOf(ns)
  ELSE IF art[v][STAGE_FILTERING] = "none" THEN FailOf(STAGE_FILTERING)
  ELSE IF art[v][STAGE_FILTERING] = "partial" THEN FailOf(PIPELINE_KEY)
  ELSE IF ns = STAGE_DETECTION THEN StartOf(ns)
  ELSE IF art[v][STAGE_DETECTION] = "none" THEN FailOf(STAGE_DETECTION)
  ELSE IF art[v][STAGE_DETECTION] = "partial" THEN FailOf(PIPELINE_KEY)
  ELSE IF ns = STAGE_LABELING THEN StartOf(ns)
  ELSE FailOf(PIPELINE_KEY)

\* _process_from_mp4 about to enter stage ns: "start", "return" (index of chunks
\* not found, or nothing left to do) or "raise" (open/json.load of the input fails)
Mp4Step(ns) ==
  IF ns = STAGE_CHUNKING THEN "start"
  ELSE IF ns = STAGE_FILTERING
    THEN (IF art["shared"][STAGE_CHUNKING] = "none" THEN "return"
          ELSE IF art["shared"][STAGE_CHUNKING] = "partial" THEN "raise" ELSE "start")
  ELSE IF ns \in {STAGE_DETECTION, STAGE_LABELING}
    THEN (IF art["shared"][Pred(ns)] \in {"none", "partial"} THEN "raise" ELSE "start")
  ELSE "return"

\* the video whose data a stage works on
OwnerIn(s, v, d) ==
  IF s = STAGE_CHUNKING \/ art[d][Pred(s)] \notin Videos THEN v ELSE art[d][Pred(s)]

\* the process is gone
Exit ==
  /\ pc' = "idle"
  /\ todo' = << >>
  /\ cur' = "none"
  /\ next_stage' = None
  /\ UNCHANGED mode

\* back to the top of the loop of run()
ToLoop ==
  /\ pc' = "loop"
  /\ cur' = "none"
  /\ next_stage' = None
  /\ UNCHANGED << mode, todo >>

Goto(p, s) ==
  /\ pc' = p
  /\ next_stage' = s
  /\ UNCHANGED << mode, todo, cur >>

NoCall ==
  /\ lastOp' = NoOp
  /\ UNCHANGED << state, file, durable, phase, crashSet, calls, crashes, faults, ioFaults >>

\* a StateManager call of the orchestrator: it returns and control goes on as
\* ctl says, or the process is killed inside it
OrchCall(op, v, s, arg, ctl) ==
  \/ /\ Call(op, v, s, arg, "run")
     /\ ctl
     /\ UNCHANGED << calls, crashes, runs >>
  \/ /\ crashes < MaxCrashes
     /\ CrashIn(op, v, s, arg, "run")
     /\ Exit
     /\ UNCHANGED << calls, runs >>

\* AutomatedPipeline() then run(): the StateManager loads the state file and
\* the videos are listed (.dav files, or the converted MP4s when there is none)
RunBegin ==
  /\ pc = "idle"
  /\ runs < MaxRuns
  /\ runs' = runs + 1
  /\ state' = _load_state(file)
  /\ phase' = IF phase = "crashed" THEN "restarted" ELSE "running"
  /\ lastOp' = NoOp
  /\ todo' = IF mode = "dav" THEN catalog ELSE SelectSeq(catalog, Mp4Exists)
  /\ pc' = "loop"
  /\ cur' = "none"
  /\ next_stage' = None
  /\ UNCHANGED << file, durable, crashSet, calls, crashes, faults, ioFaults,
                  mode, mp4, art, resetDone, catalog, auxVars >>

\* the head of the loop body: completed videos are skipped; in the dav loop a
\* failed video is reset (reset_video) when the user answers 's', else skipped
PickVideo ==
  /\ pc = "loop"
  /\ todo # << >>
  /\ LET v == Head(todo) IN
     /\ todo' = Tail(todo)
     /\ UNCHANGED << mode, next_stage, runs, mp4, art, catalog, auxVars >>
     /\ IF is_video_completed(state, v)
          THEN pc' = "loop" /\ cur' = "none" /\ NoCall /\ UNCHANGED resetDone
        ELSE IF mode = "dav" /\ is_video_failed(state, v)
          THEN \/ /\ Call("reset_video", v, "none", FALSE, "run")
                  /\ pc' = "process"
                  /\ cur' = v
                  /\ resetDone' = resetDone \cup {v}
                  /\ UNCHANGED << calls, crashes >>
               \/ pc' = "loop" /\ cur' = "none" /\ NoCall /\ UNCHANGED resetDone
        ELSE pc' = "process" /\ cur' = v /\ NoCall /\ UNCHANGED resetDone

\* _process_single_video / _process_from_mp4 up to the first StateManager call
ProcessBegin ==
  /\ pc = "process"
  /\ UNCHANGED << mp4, art, resetDone, catalog, auxVars >>
  /\ LET ns == get_next_pending_stage(state, cur) IN
     IF ns = None
       THEN ToLoop /\ NoCall /\ UNCHANGED runs
     ELSE IF mode = "dav"
       THEN LET r == IF ns = STAGE_CONVERSION THEN StartOf(ns) ELSE ResumeStep(ns, cur)
            IN OrchCall(r.op, cur, r.stage, TRUE,
                        IF r.op = "mark_stage_start" THEN Goto("exec", r.stage) ELSE ToLoop)
     ELSE IF ns = STAGE_CONVERSION
       THEN OrchCall("mark_stage_complete", cur, STAGE_CONVERSION, TRUE,
                     Goto("advance", STAGE_CHUNKING))
     ELSE Goto("advance", ns) /\ NoCall /\ UNCHANGED runs

\* a stage's work ends (_run_conversion ... _run_labeling after mark_stage_start):
\* it succeeded and its artifact is written, or it failed / raised
FinishStage ==
  /\ pc = "exec"
  /\ UNCHANGED << resetDone, catalog, auxVars >>
  /\ LET s == next_stage
         d == DirOf(cur)
     IN IF s = STAGE_CONVERSION
          THEN IF Mp4Exists(cur)
                 THEN \* convert_video: the output path exists: "Video ja convertido"
                      /\ UNCHANGED << mp4, art >>
                      /\ OrchCall("mark_stage_complete", cur, s, TRUE, Goto("advance", Succ(s)))
                 ELSE \/ /\ mp4' = [mp4 EXCEPT ![cur] = "full"]
                         /\ UNCHANGED art
                         /\ OrchCall("mark_stage_complete", cur, s, TRUE,
                                     Goto("advance", Succ(s)))
                      \/ /\ UNCHANGED << mp4, art >>
                         /\ \E msg \in BOOLEAN :
                              OrchCall("mark_stage_failed", cur, s, msg, ToLoop)
          ELSE \/ /\ art' = [art EXCEPT ![d][s] = OwnerIn(s, cur, d)]
                  /\ UNCHANGED mp4
                  /\ OrchCall("mark_stage_complete", cur, s, TRUE, Goto("advance", Succ(s)))
               \/ /\ UNCHANGED << mp4, art >>
                  /\ \E msg \in BOOLEAN :
                       OrchCall("mark_stage_failed", cur, s, msg, ToLoop)

\* a stage returned its result: the next stage is entered
Advance ==
  /\ pc = "advance"
  /\ UNCHANGED << mp4, art, resetDone, catalog, auxVars >>
  /\ IF mode = "dav"
       THEN IF next_stage # STAGE_REVIEW
              THEN OrchCall("mark_stage_start", cur, next_stage, FALSE,
                            Goto("exec", next_stage))
              ELSE \* _prompt_review_gui: open the GUI now, or skip the review
                   \/ OrchCall("mark_stage_start", cur, STAGE_REVIEW, FALSE,
                               Goto("review_gui", STAGE_REVIEW))
                   \/ OrchCall("mark_stage_complete", cur, STAGE_REVIEW, TRUE, ToLoop)
       ELSE LET m == Mp4Step(next_stage) IN
            IF m = "start"
              THEN OrchCall("mark_stage_start", cur, next_stage, FALSE,
                            Goto("exec", next_stage))
            ELSE IF m = "return"
              THEN ToLoop /\ NoCall /\ UNCHANGED runs
            ELSE \* the exception leaves run(): main() exits
                 /\ Exit
                 /\ lastOp' = NoOp
                 /\ state' = EmptyTable
                 /\ UNCHANGED << file, durable, phase, crashSet, calls, crashes,
                                 faults, ioFaults, runs >>

\* _run_review_gui after mark_stage_start: results saved (stage completed), GUI
\* closed without results / import error / proposals missing (nothing recorded),
\* or another exception (stage failed)
ReviewGui ==
  /\ pc = "review_gui"
  /\ UNCHANGED << mp4, art, resetDone, catalog, auxVars >>
  /\ \/ OrchCall("mark_stage_complete", cur, STAGE_REVIEW, TRUE,
                 Goto("review_done", STAGE_REVIEW))
     \/ Goto("review_done", STAGE_REVIEW) /\ NoCall /\ UNCHANGED runs
     \/ \E msg \in BOOLEAN :
          OrchCall("mark_stage_failed", cur, STAGE_REVIEW, msg,
                   Goto("review_done", STAGE_REVIEW))

\* "Marcar como concluido mesmo se revisao foi pulada"
ReviewDone ==
  /\ pc = "review_done"
  /\ UNCHANGED << mp4, art, resetDone, catalog, auxVars >>
  /\ OrchCall("mark_stage_complete", cur, STAGE_REVIEW, TRUE, ToLoop)

\* run() returns and the process ends
LoopEnd ==
  /\ pc = "loop"
  /\ todo = << >>
  /\ Exit
  /\ state' = EmptyTable
  /\ lastOp' = NoOp
  /\ UNCHANGED << file, durable, phase, crashSet, calls, crashes, faults, ioFaults,
                  runs, mp4, art, resetDone, catalog, auxVars >>

\* the process is killed between two StateManager calls; a stage at work leaves
\* its output file as it is or partly written
Crash ==
  /\ pc \in {"loop", "process", "exec", "advance", "review_gui", "review_done"}
  /\ crashes < MaxCrashes
  /\ crashes' = crashes + 1
  /\ phase' = "crashed"
  /\ state' = EmptyTable
  /\ lastOp' = NoOp
  /\ crashSet' = {}
  /\ Exit
  /\ IF pc # "exec" THEN UNCHANGED << mp4, art >>
     ELSE IF next_stage = STAGE_CONVERSION
       THEN /\ UNCHANGED art
            /\ IF Mp4Exists(cur) THEN UNCHANGED mp4
               ELSE \E x \in {"none", "partial"} : mp4' = [mp4 EXCEPT ![cur] = x]
     ELSE /\ UNCHANGED mp4
          /\ \E x \in {art[DirOf(cur)][next_stage], "partial"} :
               art' = [art EXCEPT ![DirOf(cur)][next_stage] = x]
  /\ UNCHANGED << file, durable, calls, faults, ioFaults, runs, resetDone, catalog, auxVars >>

RunInitWith(io, cat) ==
  /\ state = EmptyTable
  /\ file = NoFile
  /\ durable = EmptyTable
  /\ phase = "running"
  /\ lastOp = NoOp
  /\ crashSet = {}
  /\ calls = 0
  /\ crashes = 0
  /\ faults = 0
  /\ ioFaults = io
  /\ pc = "idle"
  /\ mode \in {"dav", "mp4"}
  /\ todo = << >>
  /\ cur = "none"
  /\ next_stage = None
  /\ runs = 0
  /\ \E x \in {"none", "full"} :
       mp4 = [v \in Videos |-> IF \E i \in 1..Len(cat) : cat[i] = v THEN x ELSE "none"]
  /\ art = [d \in Dirs |-> [a \in ArtStages |-> "none"]]
  /\ resetDone = {}
  /\ catalog = cat
  /\ AuxIdle

\* one source video, writes of the state file never fail
RunInit == RunInitWith(FALSE, << "a.dav" >>) /\ NoConfigError

\* one source video, writes of the state file can fail
RunIOInit == RunInitWith(TRUE, << "a.dav" >>) /\ NoConfigError

RunNext ==
  \/ RunBegin
  \/ PickVideo
  \/ ProcessBegin
  \/ FinishStage
  \/ Advance
  \/ ReviewGui
  \/ ReviewDone
  \/ LoopEnd
  \/ Crash

\* runs of the orchestrator over one video, with crashes and restarts
SpecRun == RunInit /\ [][RunNext]_vars

\* the same, on a disk where a write of the state file can fail
SpecRunIO == RunIOInit /\ [][RunNext]_vars

\* between two runs the .dav files are moved out of videos_full/: the next run
\* finds none and works from the converted MP4s (run(), "Se nao houver .dav")
DavRemoved ==
  /\ pc = "idle"
  /\ mode = "dav"
  /\ runs > 0
  /\ mode' = "mp4"
  /\ UNCHANGED << smVars, pc, todo, cur, next_stage, runs, mp4, art, resetDone,
                  catalog, auxVars >>

\* two source videos, writes of the state file never fail
BatchInit == RunInitWith(FALSE, << "a.dav", "b.dav" >>) /\ NoConfigError

BatchNext ==
  \/ RunNext
  \/ DavRemoved

\* runs of the orchestrator over a batch of two videos
SpecBatch == BatchInit /\ [][BatchNext]_vars


(* ------------------ two processes on one state file -------------------- *)
\* the calls a worker makes while it processes its video
WorkerOps == {"mark_stage_start", "mark_stage_complete", "mark_stage_failed"}

\* the video each worker owns
Worker1Video == "a.dav"
Worker2Video == "b.dav"

\* the first process calls its StateManager: self.state is changed and the
\* whole of it is written to the state file
Worker1Call ==
  /\ pc = "workers"
  /\ calls < MaxCalls
  /\ \E op \in WorkerOps, s \in StageSet :
       Call(op, Worker1Video, s, TRUE, "worker1")
  /\ calls' = calls + 1
  /\ UNCHANGED << crashes, orchVars, notWorkerVars, peer, peerCalls >>

\* the second process does the same with its own StateManager object, whose
\* self.state was loaded when that process started
Worker2Call ==
  /\ pc = "workers"
  /\ peerCalls < MaxCalls
  /\ \E op \in WorkerOps, s \in StageSet :
       LET W == Writes(op, peer, Worker2Video, s, TRUE)
           ok == [i \in 1..Len(W) |-> "ok"]
       IN /\ peer' = After(peer, W)
          /\ file' = SaveAll(file, W, ok, 1)
          /\ durable' = LastWhole(durable, W, ok, 1)
          /\ lastOp' = [op |-> op, video |-> Worker2Video, stage |-> s, by |-> "worker2"]
  /\ peerCalls' = peerCalls + 1
  /\ UNCHANGED << state, phase, crashSet, calls, crashes, faults, ioFaults,
                  orchVars, notWorkerVars >>

\* both processes have constructed their StateManager on the same state file
WorkersInit ==
  /\ \E t \in InitTables :
       /\ state = t
       /\ peer = t
       /\ file = FileOf(t)
       /\ durable = t
  /\ phase = "running"
  /\ lastOp = NoOp
  /\ crashSet = {}
  /\ calls = 0
  /\ crashes = 0
  /\ faults = 0
  /\ ioFaults = FALSE
  /\ pc = "workers"
  /\ mode = "none"
  /\ todo = << >>
  /\ cur = "none"
  /\ next_stage = None
  /\ runs = 0
  /\ mp4 = [v \in Videos |-> "none"]
  /\ art = [d \in Dirs |-> [a \in ArtStages |-> "none"]]
  /\ resetDone = {}
  /\ catalog = << >>
  /\ NoConfigError
  /\ DetIdle
  /\ FiltIdle
  /\ LabelIdle
  /\ peerCalls = 0
  /\ chunk_pc = "off"
  /\ cap = NoCap
  /\ chunk_duration = 0
  /\ frames_per_chunk = 0
  /\ num_chunks = 0
  /\ chunk_idx = 0
  /\ chunks_metadata = << >>
  /\ chunks_index = "none"
  /\ chunk_error = "none"
  /\ use_gpu = FALSE
  /\ extractions = << >>

WorkersNext ==
  \/ Worker1Call
  \/ Worker2Call

\* two workers that own disjoint videos, in any interleaving of their calls
SpecWorkers == WorkersInit /\ [][WorkersNext]_vars


(* --------------------- VideoChunker.chunk_video ------------------------ *)
\* int(x) for the fraction a/b with b > 0: truncation towards zero
TruncDiv(a, b) == IF a >= 0 THEN a \div b ELSE -((-a) \div b)

\* Python's a // b for integers, b # 0: the floor of the quotient
FloorDiv(a, b) == IF b > 0 THEN a \div b ELSE (-a) \div (-b)

Min(a, b) == IF a <= b THEN a ELSE b

\* frames_per_chunk = int(fps * self.chunk_duration)
FramesPerChunk(fps, dur) == TruncDiv(fps.num * dur, fps.den)

\* a variant of NumChunks that rounds down: used to show that C19 depends on
\* the rounding up
NumChunksFloor(total, fpc) == FloorDiv(total, fpc)

\* num_chunks = (total_frames + frames_per_chunk - 1) // frames_per_chunk
NumChunks(total, fpc) == FloorDiv(total + fpc - 1, fpc)

\* the metadata of chunk i; duration_seconds = frame_count / fps is kept as the
\* exact fraction, the timestamps as exact seconds after start_time
ChunkMeta(i) ==
  LET chunk_start_frame == i * frames_per_chunk
      chunk_end_frame == Min((i + 1) * frames_per_chunk, cap.total_frames)
  IN [chunk_index |-> i,
      start_frame |-> chunk_start_frame,
      end_frame |-> chunk_end_frame,
      frame_count |-> chunk_end_frame - chunk_start_frame,
      start_timestamp |-> [num |-> i * chunk_duration, den |-> 1],
      end_timestamp |-> [num |-> i * chunk_duration * cap.fps.num
                                   + (chunk_end_frame - chunk_start_frame) * cap.fps.den,
                         den |-> cap.fps.num],
      duration_seconds |-> [num |-> (chunk_end_frame - chunk_start_frame) * cap.fps.den,
                            den |-> cap.fps.num]]

FpsValues == { [num |-> n, den |-> d] : n \in (-1)..MaxFpsNum, d \in 1..MaxFpsDen }

\* total_frames = 10000, fps = 25 with the default chunk duration of 180 s
ExampleInput ==
  [cap |-> [opened |-> TRUE, total_frames |-> 10000, fps |-> [num |-> 25, den |-> 1]],
   chunk_duration |-> 180]

ChunkInputs ==
  { [cap |-> [opened |-> o, total_frames |-> n, fps |-> f], chunk_duration |-> d] :
      o \in BOOLEAN, n \in (-1)..MaxFrames, f \in FpsValues, d \in 1..MaxChunkDuration }
  \cup {ExampleInput}

\* chunk_video up to the loop: the source is opened and the chunk grid computed
ChunkVideoBegin ==
  /\ chunk_pc = "call"
  /\ IF ~cap.opened
       THEN \* raise ValueError("Nao foi possivel abrir video")
            /\ chunk_pc' = "raised"
            /\ chunk_error' = "ValueError"
            /\ UNCHANGED << frames_per_chunk, num_chunks >>
     ELSE IF cap.fps.num = 0 \/ FramesPerChunk(cap.fps, chunk_duration) = 0
       THEN \* total_frames / fps, or the // by frames_per_chunk, divides by zero
            /\ chunk_pc' = "raised"
            /\ chunk_error' = "ZeroDivisionError"
            /\ UNCHANGED << frames_per_chunk, num_chunks >>
     ELSE /\ frames_per_chunk' = FramesPerChunk(cap.fps, chunk_duration)
          /\ num_chunks' = NumChunks(cap.total_frames,
                                     FramesPerChunk(cap.fps, chunk_duration))
          /\ chunk_pc' = "loop"
          /\ UNCHANGED chunk_error
  /\ UNCHANGED << cap, chunk_duration, chunk_idx, chunks_metadata, chunks_index,
                  use_gpu, extractions >>
  /\ UNCHANGED notChunkVars

\* the frame counts tried for an extraction of 'expected' frames: none, all,
\* and the counts around nine tenths of them
WrittenChoices(expected) ==
  IF expected <= 0 THEN {0}
  ELSE {0, expected} \cup
       { k \in 0..expected : 9 * expected - 10 <= 10 * k /\ 10 * k <= 9 * expected + 10 }

\* _extract_chunk: False when the VideoWriter does not open or an exception is
\* caught; otherwise the frames read are written, a warning is logged when
\* frames_written < expected_frames * 0.9, and True is returned
ExtractChunk(expected) ==
  { [success |-> FALSE, frames_written |-> 0, warned |-> FALSE] } \cup
  { [success |-> TRUE, frames_written |-> w, warned |-> 10 * w < 9 * expected] :
      w \in WrittenChoices(expected) }

\* _extract_chunk_gpu: True exactly when ffmpeg exits with code 0; the frames
\* of the segment it wrote are not counted
ExtractChunkGpu(expected) ==
  { [success |-> FALSE, frames_written |-> 0, warned |-> FALSE] } \cup
  { [success |-> TRUE, frames_written |-> w, warned |-> FALSE] :
      w \in WrittenChoices(expected) }

\* one pass of 'for chunk_idx in range(num_chunks)': the chunk is extracted
\* and its metadata appended, or the extraction failed and the chunk is skipped
ChunkExtract ==
  /\ chunk_pc = "loop"
  /\ chunk_idx < num_chunks
  /\ LET expected == ChunkMeta(chunk_idx).frame_count IN
     \E out \in (IF use_gpu THEN ExtractChunkGpu(expected) ELSE ExtractChunk(expected)) :
       /\ extractions' = Append(extractions,
                                [chunk_index |-> chunk_idx,
                                 expected_frames |-> expected,
                                 success |-> out.success,
                                 frames_written |-> out.frames_written,
                                 warned |-> out.warned])
       /\ chunks_metadata' = IF out.success
                               THEN Append(chunks_metadata, ChunkMeta(chunk_idx))
                             ELSE chunks_metadata
  /\ chunk_idx' = chunk_idx + 1
  /\ UNCHANGED << chunk_pc, cap, chunk_duration, frames_per_chunk, num_chunks,
                  chunks_index, chunk_error, use_gpu >>
  /\ UNCHANGED notChunkVars

\* after the loop: chunks_index.json is written and the list returned
ChunkSaveIndex ==
  /\ chunk_pc = "loop"
  /\ chunk_idx >= num_chunks
  /\ chunks_index' = [total_chunks |-> Len(chunks_metadata), chunks |-> chunks_metadata]
  /\ chunk_pc' = "returned"
  /\ UNCHANGED << cap, chunk_duration, frames_per_chunk, num_chunks, chunk_idx,
                  chunks_metadata, chunk_error, use_gpu, extractions >>
  /\ UNCHANGED notChunkVars

\* VideoChunker(chunk_duration).chunk_video(video_path, output_dir) is called
ChunkInit ==
  /\ \E in \in ChunkInputs :
       /\ cap = in.cap
       /\ chunk_duration = in.chunk_duration
  /\ NoConfigError
  /\ DetIdle
  /\ FiltIdle
  /\ LabelIdle
  /\ chunk_pc = "call"
  /\ frames_per_chunk = 0
  /\ num_chunks = 0
  /\ chunk_idx = 0
  /\ chunks_metadata = << >>
  /\ chunks_index = "none"
  /\ chunk_error = "none"
  /\ use_gpu \in BOOLEAN
  /\ extractions = << >>
  /\ peer = << >>
  /\ peerCalls = 0
  /\ state = EmptyTable
  /\ file = NoFile
  /\ durable = EmptyTable
  /\ phase = "running"
  /\ lastOp = NoOp
  /\ crashSet = {}
  /\ calls = 0
  /\ crashes = 0
  /\ faults = 0
  /\ ioFaults = FALSE
  /\ pc = "chunker"
  /\ mode = "none"
  /\ todo = << >>
  /\ cur = "none"
  /\ next_stage = None
  /\ runs = 0
  /\ mp4 = [v \in Videos |-> "none"]
  /\ art = [d \in Dirs |-> [a \in ArtStages |-> "none"]]
  /\ resetDone = {}
  /\ catalog = << >>

ChunkNext ==
  \/ ChunkVideoBegin
  \/ ChunkExtract
  \/ ChunkSaveIndex

\* one call of chunk_video on any source, with any outcome of the extractions
SpecChunk == ChunkInit /\ [][ChunkNext]_vars

(* ------------------ EventDetector.detect_events_in_chunk --------------- *)
\* the defaults of EventDetector.__init__; confidences are in hundredths and
\* the aspect ratios are fractions
DefaultConfig ==
  [min_duration_seconds |-> 1,
   sample_rate |-> 1,
   min_bbox_area |-> 2000,
   max_bbox_area |-> 500000,
   min_aspect_ratio |-> [num |-> 3, den |-> 10],
   max_aspect_ratio |-> [num |-> 4, den |-> 1],
   min_track_length |-> 15,
   min_track_confidence_avg |-> 55,
   require_motion_for_event |-> TRUE,
   min_track_movement_pixels |-> 12,
   fps |-> 30]

\* the configurations tried: short tracks are allowed so that every gate is
\* reached by a stream of a few frames; fps is chunk_info['fps']
DetConfigs ==
  { [DefaultConfig EXCEPT !.min_track_length = l,
                          !.require_motion_for_event = r,
                          !.sample_rate = sf[1],
                          !.fps = sf[2]] :
      l \in 1..MaxTrackLength, r \in BOOLEAN,
      sf \in { << 1, 1 >>, << 2, 1 >>, << 1, 2 >> } }

\* bboxes [x1, y1, x2, y2]: a person at the left, the same person 30 px to the
\* right, a box too small for the area gate, a box too flat for the ratio gate
BoxHome == [x1 |-> 0, y1 |-> 0, x2 |-> 50, y2 |-> 100]

BoxMoved == [x1 |-> 30, y1 |-> 0, x2 |-> 80, y2 |-> 100]

BoxTiny == [x1 |-> 0, y1 |-> 0, x2 |-> 10, y2 |-> 20]

BoxFlat == [x1 |-> 0, y1 |-> 0, x2 |-> 200, y2 |-> 20]

Det(id, conf, bbox) == [track_id |-> id, confidence |-> conf, bbox |-> bbox]

\* what the tracker may yield for one frame: the (track id, confidence, bbox)
\* triples of result.boxes, none when boxes or boxes.id is None
FrameResults ==
  { << >>,
    << Det(1, 60, BoxHome) >>,
    << Det(1, 60, BoxMoved) >>,
    << Det(1, 40, BoxHome) >>,
    << Det(1, 60, BoxTiny) >>,
    << Det(2, 60, BoxFlat) >>,
    << Det(1, 60, BoxTiny), Det(2, 60, BoxMoved) >>,
    << Det(1, 60, BoxHome), Det(1, 60, BoxMoved) >> }

RECURSIVE StreamsOfLen(_)
StreamsOfLen(n) ==
  IF n = 0 THEN { << >> }
  ELSE { Append(s, f) : s \in StreamsOfLen(n - 1), f \in FrameResults }

\* the detection streams of at most n frames
Streams(n) == UNION { StreamsOfLen(k) : k \in 0..n }

\* boxes.id, boxes.conf and boxes.xyxy are python lists or tensors
BoxesKinds == { "list", "tensor" }

\* _to_list(boxes.xyxy, cast=float): a list is returned as it is; a tensor of
\* shape (N, 4) becomes a list of 4-element lists, float() of a list raises
\* TypeError and the except clause returns []
ToListXyxy(kind, dets) ==
  IF kind = "list" THEN [k \in 1..Len(dets) |-> dets[k].bbox] ELSE << >>

\* zip(track_ids, confidences, xyxy) stops at the shortest of the three lists
Zipped(kind, dets) ==
  LET xyxy == ToListXyxy(kind, dets)
      n == IF Len(xyxy) < Len(dets) THEN Len(xyxy) ELSE Len(dets)
  IN [k \in 1..n |-> [dets[k] EXCEPT !.bbox = xyxy[k]]]

\* a variant of BboxValid that lets every bbox through: used to show that C29
\* depends on the gate
BboxValidAlways(cfg, b) == b = b

\* the quality test of a bbox: area within [min_bbox_area, max_bbox_area] and
\* height/width (0 when width <= 0) within the aspect ratio limits
BboxValid(cfg, b) ==
  LET width == b.x2 - b.x1
      height == b.y2 - b.y1
      area == width * height
  IN /\ cfg.min_bbox_area <= area
     /\ area <= cfg.max_bbox_area
     /\ IF width > 0
          THEN /\ cfg.min_aspect_ratio.num * width <= height * cfg.min_aspect_ratio.den
               /\ height * cfg.max_aspect_ratio.den <= cfg.max_aspect_ratio.num * width
        ELSE /\ cfg.min_aspect_ratio.num <= 0
             /\ 0 <= cfg.max_aspect_ratio.num

\* tracks[track_id].append(d): tracks is the dict in insertion order, a
\* sequence of [track_id, detections]
AppendToTrack(trs, id, d) ==
  IF \E i \in 1..Len(trs) : trs[i].track_id = id
    THEN [i \in 1..Len(trs) |->
            IF trs[i].track_id = id
              THEN [trs[i] EXCEPT !.detections = Append(@, d)]
            ELSE trs[i]]
  ELSE Append(trs, [track_id |-> id, detections |-> << d >>])

\* the loop over zip(track_ids, confidences, xyxy) of one frame, from the
\* k-th triple on
RECURSIVE AddDetections(_, _, _, _, _)
AddDetections(cfg, trs, dets, k, frame_idx) ==
  IF k > Len(dets) THEN trs
  ELSE AddDetections(cfg,
                     IF BboxValid(cfg, dets[k].bbox)
                       THEN AppendToTrack(trs, dets[k].track_id,
                                          [frame |-> frame_idx,
                                           bbox |-> dets[k].bbox,
                                           confidence |-> dets[k].confidence])
                     ELSE trs,
                     dets, k + 1, frame_idx)

RECURSIVE SumConf(_)
SumConf(ds) == IF ds = << >> THEN 0 ELSE ds[1].confidence + SumConf(Tail(ds))

\* the squared distance between the centres of the first and the last bbox,
\* times 4 (the centres are halves of x1+x2 and y1+y2)
MovementSq4(ds) ==
  LET a == ds[1].bbox
      b == ds[Len(ds)].bbox
      dx == (b.x1 + b.x2) - (a.x1 + a.x2)
      dy == (b.y1 + b.y2) - (a.y1 + a.y2)
  IN dx * dx + dy * dy

\* a variant of GateOf that tests the duration before the length: used to show
\* that C30 depends on the order of the gates
GateOfDurationFirst(cfg, ds) ==
  IF ds[Len(ds)].frame - ds[1].frame < cfg.min_duration_seconds * cfg.fps
    THEN "rejected_duration"
  ELSE IF Len(ds) < cfg.min_track_length THEN "rejected_track_length"
  ELSE IF SumConf(ds) < cfg.min_track_confidence_avg * Len(ds)
    THEN "rejected_confidence"
  ELSE IF /\ cfg.require_motion_for_event
          /\ cfg.min_track_movement_pixels > 0
          /\ MovementSq4(ds) < 4 * cfg.min_track_movement_pixels * cfg.min_track_movement_pixels
    THEN "rejected_movement"
  ELSE "accepted"

\* the outcome of the gates for one track, in the order of the code
GateOf(cfg, ds) ==
  IF Len(ds) < cfg.min_track_length THEN "rejected_track_length"
  ELSE IF ds[Len(ds)].frame - ds[1].frame < cfg.min_duration_seconds * cfg.fps
    THEN "rejected_duration"
  ELSE IF SumConf(ds) < cfg.min_track_confidence_avg * Len(ds)
    THEN "rejected_confidence"
  ELSE IF /\ cfg.require_motion_for_event
          /\ cfg.min_track_movement_pixels > 0
          /\ MovementSq4(ds) < 4 * cfg.min_track_movement_pixels * cfg.min_track_movement_pixels
    THEN "rejected_movement"
  ELSE "accepted"

\* f"event_{track_id:04d}": the digits of the track id, padded to four; two
\* ids give the same string exactly when they are equal
EventId(track_id) == << "event", track_id >>

\* a variant of EventOf that counts one frame less: used to show that C22
\* depends on frame_count
EventOfShort(cfg, tr, clock) ==
  [event_id |-> EventId(tr.track_id),
   track_id |-> tr.track_id,
   start_frame |-> tr.detections[1].frame,
   end_frame |-> tr.detections[Len(tr.detections)].frame,
   duration_seconds |-> [num |-> 0, den |-> cfg.fps],
   frame_count |-> Len(tr.detections) - 1,
   confidence_avg |-> [num |-> SumConf(tr.detections), den |-> Len(tr.detections)],
   confidence_min |-> 0,
   confidence_max |-> 0,
   movement_distance |-> [sq4 |-> 0],
   bbox_sequence |-> << >>,
   detection_timestamps |-> clock]

\* the event dict of an accepted track; duration_seconds and confidence_avg are
\* exact fractions, movement_distance is half the square root of sq4
EventOf(cfg, tr, clock) ==
  LET ds == tr.detections IN
  [event_id |-> EventId(tr.track_id),
   track_id |-> tr.track_id,
   start_frame |-> ds[1].frame,
   end_frame |-> ds[Len(ds)].frame,
   duration_seconds |-> [num |-> ds[Len(ds)].frame - ds[1].frame, den |-> cfg.fps],
   frame_count |-> Len(ds),
   confidence_avg |-> [num |-> SumConf(ds), den |-> Len(ds)],
   confidence_min |-> CHOOSE c \in { ds[i].confidence : i \in 1..Len(ds) } :
                        \A i \in 1..Len(ds) : c <= ds[i].confidence,
   confidence_max |-> CHOOSE c \in { ds[i].confidence : i \in 1..Len(ds) } :
                        \A i \in 1..Len(ds) : c >= ds[i].confidence,
   movement_distance |-> [sq4 |-> MovementSq4(ds)],
   bbox_sequence |-> [i \in 1..Len(ds) |-> ds[i].bbox],
   detection_timestamps |-> clock]

NoStats ==
  [total_tracks |-> 0, rejected_track_length |-> 0, rejected_duration |-> 0,
   rejected_confidence |-> 0, rejected_movement |-> 0, accepted |-> 0]

\* one pass of 'for frame_idx, result in enumerate(results)': the frame is
\* skipped by the sample rate, or its valid detections are added to the tracks
DetectFrame ==
  /\ det_pc = "track"
  /\ frame_count < Len(results)
  /\ frame_count' = frame_count + 1
  /\ tracks' = IF (frame_count + 1) % det_config.sample_rate # 0 THEN tracks
               ELSE AddDetections(det_config, tracks,
                                  Zipped(boxes_kind, results[frame_count + 1]), 1,
                                  frame_count)
  /\ UNCHANGED << det_pc, det_config, boxes_kind, results, track_pos, filter_stats, events,
                  now, first_events >>
  /\ UNCHANGED << batchVars, notDetVars >>

\* the stream is exhausted: events and filter_stats are set up
DetectTracked ==
  /\ det_pc = "track"
  /\ frame_count = Len(results)
  /\ det_pc' = "filter"
  /\ events' = << >>
  /\ filter_stats' = [NoStats EXCEPT !.total_tracks = Len(tracks)]
  /\ track_pos' = 1
  /\ UNCHANGED << det_config, boxes_kind, results, frame_count, tracks, now, first_events >>
  /\ UNCHANGED << batchVars, notDetVars >>

\* one pass of 'for track_id, detections in tracks.items()'
FilterTrack ==
  /\ det_pc = "filter"
  /\ track_pos <= Len(tracks)
  /\ LET gate == GateOf(det_config, tracks[track_pos].detections) IN
     /\ filter_stats' = [filter_stats EXCEPT ![gate] = @ + 1]
     /\ events' = IF gate = "accepted"
                    THEN Append(events, EventOf(det_config, tracks[track_pos], now))
                  ELSE events
  /\ track_pos' = track_pos + 1
  /\ UNCHANGED << det_pc, det_config, boxes_kind, results, frame_count, tracks, now, first_events >>
  /\ UNCHANGED << batchVars, notDetVars >>

\* return events
DetectReturn ==
  /\ det_pc = "filter"
  /\ track_pos > Len(tracks)
  /\ det_pc' = "returned"
  /\ UNCHANGED << det_config, boxes_kind, results, frame_count, tracks, track_pos, filter_stats,
                  events, now, first_events >>
  /\ UNCHANGED << batchVars, notDetVars >>

\* the state of the other components while a component is exercised alone
CoreIdle ==
  /\ NoConfigError
  /\ peer = << >>
  /\ peerCalls = 0
  /\ state = EmptyTable
  /\ file = NoFile
  /\ durable = EmptyTable
  /\ phase = "running"
  /\ lastOp = NoOp
  /\ crashSet = {}
  /\ calls = 0
  /\ crashes = 0
  /\ faults = 0
  /\ ioFaults = FALSE
  /\ mode = "none"
  /\ todo = << >>
  /\ cur = "none"
  /\ next_stage = None
  /\ runs = 0
  /\ mp4 = [v \in Videos |-> "none"]
  /\ art = [d \in Dirs |-> [a \in ArtStages |-> "none"]]
  /\ resetDone = {}
  /\ catalog = << >>

\* detect_events_in_chunk is called on a chunk whose tracker yields rs
DetectCall(cfgs, streams) ==
  /\ det_config \in cfgs
  /\ boxes_kind \in BoxesKinds
  /\ results \in streams
  /\ det_pc = "track"
  /\ frame_count = 0
  /\ tracks = << >>
  /\ track_pos = 0
  /\ filter_stats = NoStats
  /\ events = << >>
  /\ now = 0
  /\ first_events = << >>

DetectInit ==
  /\ DetectCall(DetConfigs, Streams(MaxStreamFrames))
  /\ NoBatch
  /\ pc = "detector"
  /\ CoreIdle
  /\ ChunkIdle
  /\ FiltIdle
  /\ LabelIdle

DetectNext ==
  \/ DetectFrame
  \/ DetectTracked
  \/ FilterTrack
  \/ DetectReturn

\* one call of detect_events_in_chunk on any stream of the tracker
SpecDetect == DetectInit /\ [][DetectNext]_vars


\* detect_events_batch: 'for idx, chunk_info in enumerate(active_chunks)' calls
\* detect_events_in_chunk on the next chunk, for which the tracker yields any
\* stream, with track ids of its own choice
BatchChunkBegin ==
  /\ batch_pc = "loop"
  /\ batch_idx < batch_total
  /\ batch_pc' = "chunk"
  /\ results' \in Streams(MaxStreamFrames)
  /\ det_pc' = "track"
  /\ frame_count' = 0
  /\ tracks' = << >>
  /\ track_pos' = 0
  /\ filter_stats' = NoStats
  /\ events' = << >>
  /\ UNCHANGED << det_config, boxes_kind, now, first_events, batch_total, batch_idx,
                  all_events >>
  /\ UNCHANGED notDetVars

\* the call returned: the chunk's context is added to its events and they are
\* appended to all_events
BatchChunkEnd ==
  /\ batch_pc = "chunk"
  /\ det_pc = "returned"
  /\ all_events' = all_events \o
       [k \in 1..Len(events) |-> ("chunk_id" :> batch_idx) @@ events[k]]
  /\ batch_idx' = batch_idx + 1
  /\ batch_pc' = "loop"
  /\ det_pc' = "off"
  /\ UNCHANGED << det_config, boxes_kind, results, frame_count, tracks, track_pos,
                  filter_stats, events, now, first_events, batch_total >>
  /\ UNCHANGED notDetVars

\* return all_events, stats
BatchReturn ==
  /\ batch_pc = "loop"
  /\ batch_idx = batch_total
  /\ batch_pc' = "returned"
  /\ UNCHANGED << det_pc, det_config, boxes_kind, results, frame_count, tracks,
                  track_pos, filter_stats, events, now, first_events, batch_total,
                  batch_idx, all_events >>
  /\ UNCHANGED notDetVars

\* detect_events_batch is called on a list of active chunks
DetectBatchInit ==
  /\ det_config = [DefaultConfig EXCEPT !.min_track_length = 1, !.fps = 1]
  /\ boxes_kind \in BoxesKinds
  /\ batch_total \in 0..MaxBatchChunks
  /\ batch_pc = "loop"
  /\ batch_idx = 0
  /\ all_events = << >>
  /\ det_pc = "off"
  /\ results = << >>
  /\ frame_count = 0
  /\ tracks = << >>
  /\ track_pos = 0
  /\ filter_stats = NoStats
  /\ events = << >>
  /\ now = 0
  /\ first_events = << >>
  /\ pc = "detect_batch"
  /\ CoreIdle
  /\ ChunkIdle
  /\ FiltIdle
  /\ LabelIdle

DetectBatchNext ==
  \/ BatchChunkBegin
  \/ DetectNext
  \/ BatchChunkEnd
  \/ BatchReturn

\* one call of detect_events_batch
SpecDetectBatch == DetectBatchInit /\ [][DetectBatchNext]_vars

\* time passes: a later datetime.now() reads a later clock
Tick ==
  /\ pc = "replay"
  /\ det_pc \in {"track", "filter", "returned"}
  /\ now < MaxClock
  /\ now' = now + 1
  /\ UNCHANGED << det_pc, det_config, boxes_kind, results, frame_count, tracks, track_pos,
                  filter_stats, events, first_events >>
  /\ UNCHANGED << batchVars, notDetVars >>

\* detect_events_in_chunk is called again with the same configuration on a
\* chunk for which the tracker yields the same stream
Replay ==
  /\ pc = "replay"
  /\ det_pc = "returned"
  /\ first_events = << >>
  /\ first_events' = << events >>
  /\ det_pc' = "track"
  /\ frame_count' = 0
  /\ tracks' = << >>
  /\ track_pos' = 0
  /\ filter_stats' = NoStats
  /\ events' = << >>
  /\ UNCHANGED << det_config, boxes_kind, results, now >>
  /\ UNCHANGED << batchVars, notDetVars >>

ReplayInit ==
  /\ DetectCall({ [DefaultConfig EXCEPT !.min_track_length = 1, !.fps = 1] },
                Streams(MaxStreamFrames))
  /\ NoBatch
  /\ pc = "replay"
  /\ CoreIdle
  /\ ChunkIdle
  /\ FiltIdle
  /\ LabelIdle

ReplayNext ==
  \/ DetectNext
  \/ Tick
  \/ Replay

\* two calls of detect_events_in_chunk on the same stream, at any times
SpecReplay == ReplayInit /\ [][ReplayNext]_vars

(* ----------------- ActivityFilter.filter_inactive_chunks --------------- *)
\* what _count_person_frames may find in a sampled frame: no box, a box that
\* passes the area and aspect ratio tests, or only boxes that fail them
SampledKinds == {"empty", "person", "bad_bbox"}

RECURSIVE SampledOfLen(_)
SampledOfLen(n) ==
  IF n = 0 THEN { << >> }
  ELSE { Append(s, f) : s \in SampledOfLen(n - 1), f \in SampledKinds }

\* the sampled frames of a chunk
SampledFrames == UNION { SampledOfLen(k) : k \in 0..MaxSampled }

\* _count_person_frames: (person_frames, total_sampled) for the sampled frames
RECURSIVE CountPersonFrames(_)
CountPersonFrames(frames) ==
  IF frames = << >> THEN [person_frames |-> 0, total_sampled |-> 0]
  ELSE LET rest == CountPersonFrames(Tail(frames)) IN
       [person_frames |-> rest.person_frames + (IF Head(frames) = "person" THEN 1 ELSE 0),
        total_sampled |-> rest.total_sampled + 1]

FilterConfigs == { [min_person_frames |-> m] : m \in 0..MaxSampled }

NoFilterStats ==
  [total_chunks |-> 0, active_chunks |-> 0, inactive_chunks |-> 0,
   motion_rejected |-> 0, person_rejected |-> 0]

\* a variant of the person test that accepts every chunk with motion: used to
\* show that C24 depends on the test
PersonRejectedNever(person_frames, min_person_frames) == person_frames < 0

\* person_frames < self.min_person_frames
PersonRejected(person_frames, min_person_frames) == person_frames < min_person_frames

\* one pass of 'for idx, chunk_info in enumerate(chunks_metadata)': the file is
\* missing, or the motion test fails, or the person count decides
FilterChunk ==
  /\ filt_pc = "loop"
  /\ filt_idx < Len(filt_chunks)
  /\ filt_idx' = filt_idx + 1
  /\ \E exists, has_motion \in BOOLEAN, frames \in SampledFrames :
       LET chunk_info == filt_chunks[filt_idx + 1]
           counted == CountPersonFrames(frames)
           entry == [chunk_index |-> chunk_info.chunk_index, exists |-> exists,
                     motion_ran |-> exists,
                     has_motion |-> exists /\ has_motion,
                     detector_ran |-> exists /\ has_motion,
                     person_frames |-> IF exists /\ has_motion
                                         THEN counted.person_frames ELSE 0,
                     total_sampled |-> IF exists /\ has_motion
                                         THEN counted.total_sampled ELSE 0]
       IN /\ filt_log' = Append(filt_log, entry)
          /\ IF ~exists
               THEN \* 'Chunk nao encontrado': continue
                    /\ ~has_motion
                    /\ frames = << >>
                    /\ UNCHANGED << active_chunks, stats >>
             ELSE IF ~has_motion
               THEN /\ frames = << >>
                    /\ stats' = [stats EXCEPT !.motion_rejected = @ + 1,
                                              !.inactive_chunks = @ + 1]
                    /\ UNCHANGED active_chunks
             ELSE IF PersonRejected(counted.person_frames, filt_config.min_person_frames)
               THEN /\ stats' = [stats EXCEPT !.person_rejected = @ + 1,
                                              !.inactive_chunks = @ + 1]
                    /\ UNCHANGED active_chunks
             ELSE /\ active_chunks' =
                       Append(active_chunks,
                              [chunk_index |-> chunk_info.chunk_index,
                               person_frames |-> counted.person_frames,
                               total_sampled_frames |-> counted.total_sampled,
                               activity_score |->
                                 IF counted.total_sampled > 0
                                   THEN [num |-> counted.person_frames,
                                         den |-> counted.total_sampled]
                                 ELSE [num |-> 0, den |-> 1]])
                  /\ stats' = [stats EXCEPT !.active_chunks = @ + 1]
  /\ UNCHANGED << filt_pc, filt_config, filt_chunks, filt_error, motVars >>
  /\ UNCHANGED notFiltVars

\* after the loop: the retention rate is logged and the result returned
FilterFinish ==
  /\ filt_pc = "loop"
  /\ filt_idx = Len(filt_chunks)
  /\ IF stats.total_chunks = 0
       THEN \* stats['active_chunks'] / stats['total_chunks'] divides by zero
            /\ filt_pc' = "raised"
            /\ filt_error' = "ZeroDivisionError"
     ELSE /\ filt_pc' = "returned"
          /\ UNCHANGED filt_error
  /\ UNCHANGED << filt_config, filt_chunks, filt_idx, active_chunks, stats, filt_log,
                  motVars >>
  /\ UNCHANGED notFiltVars


\* cv2.threshold(diff, 25, 255, cv2.THRESH_BINARY): a pixel counts as changed
\* when its absolute difference is above this value
PixelDiffThreshold == 25

\* the frames a chunk is made of: two pixels each
MotionFrames == { << 0, 0 >>, << 0, 26 >>, << 26, 26 >>, << 25, 0 >> }

RECURSIVE VideosOfLen(_)
VideosOfLen(n) ==
  IF n = 0 THEN { << >> }
  ELSE { Append(v, f) : v \in VideosOfLen(n - 1), f \in MotionFrames }

MotionVideos == UNION { VideosOfLen(k) : k \in 0..MaxVideoFrames }

\* the default threshold of 2% and a threshold a two-pixel frame can hit
MotionConfigs ==
  { [motion_threshold |-> t, motion_sample_rate |-> r] :
      t \in { [num |-> 2, den |-> 100], [num |-> 1, den |-> 2] }, r \in 1..2 }

\* np.count_nonzero(thresh) for diff = cv2.absdiff(prev_gray, gray)
MotionPixels(a, b) ==
  Cardinality({ i \in 1..Len(a) :
                  (IF a[i] >= b[i] THEN a[i] - b[i] ELSE b[i] - a[i]) > PixelDiffThreshold })

\* a variant of the threshold test that also passes a ratio equal to the
\* threshold: used to show that C32 depends on the strict comparison
MotionRatioAtLeast(motion_pixels, total_pixels, threshold) ==
  motion_pixels * threshold.den >= threshold.num * total_pixels

\* motion_ratio > self.motion_threshold, for motion_ratio =
\* motion_pixels / total_pixels
MotionRatioExceeds(motion_pixels, total_pixels, threshold) ==
  motion_pixels * threshold.den > threshold.num * total_pixels

\* cap = cv2.VideoCapture(video_path); ret, prev_frame = cap.read(): False is
\* returned when the first frame cannot be read
MotionOpen ==
  /\ mot_pc = "open"
  /\ IF Len(video) = 0
       THEN /\ mot_pc' = "returned"
            /\ UNCHANGED << cap_pos, prev_gray, read_log >>
     ELSE /\ mot_pc' = "loop"
          /\ cap_pos' = 1
          /\ prev_gray' = [index |-> 0, gray |-> video[1]]
          /\ read_log' = << [index |-> 0, against |-> -1] >>
  /\ UNCHANGED << mot_config, video, motion_detected >>
  /\ UNCHANGED << filt_pc, filt_config, filt_chunks, filt_idx, active_chunks, stats,
                  filt_log, filt_error >>
  /\ UNCHANGED notFiltVars

\* one pass of 'while True': motion_sample_rate - 1 frames are grabbed, the
\* next one is read and compared with prev_gray
MotionIterate ==
  /\ mot_pc = "loop"
  /\ LET pos == Min(cap_pos + mot_config.motion_sample_rate - 1, Len(video)) IN
     IF pos >= Len(video)
       THEN \* ret is False: break
            /\ mot_pc' = "returned"
            /\ cap_pos' = pos
            /\ UNCHANGED << prev_gray, motion_detected, read_log >>
     ELSE LET gray == video[pos + 1] IN
          /\ cap_pos' = pos + 1
          /\ read_log' = Append(read_log, [index |-> pos, against |-> prev_gray.index])
          /\ IF MotionRatioExceeds(MotionPixels(prev_gray.gray, gray), Len(gray),
                                   mot_config.motion_threshold)
               THEN /\ motion_detected' = TRUE
                    /\ mot_pc' = "returned"
                    /\ UNCHANGED prev_gray
             ELSE /\ prev_gray' = [index |-> pos, gray |-> gray]
                  /\ UNCHANGED << mot_pc, motion_detected >>
  /\ UNCHANGED << mot_config, video >>
  /\ UNCHANGED << filt_pc, filt_config, filt_chunks, filt_idx, active_chunks, stats,
                  filt_log, filt_error >>
  /\ UNCHANGED notFiltVars

\* _detect_motion is called on a chunk
MotionInit ==
  /\ mot_config \in MotionConfigs
  /\ video \in MotionVideos
  /\ mot_pc = "open"
  /\ cap_pos = 0
  /\ prev_gray = << >>
  /\ motion_detected = FALSE
  /\ read_log = << >>
  /\ NoFilterCall
  /\ pc = "motion"
  /\ CoreIdle
  /\ ChunkIdle
  /\ DetIdle
  /\ LabelIdle

MotionNext ==
  \/ MotionOpen
  \/ MotionIterate

\* one call of _detect_motion on any chunk
SpecMotion == MotionInit /\ [][MotionNext]_vars

\* filter_inactive_chunks is called on a list of chunks
FilterInit ==
  /\ filt_config \in FilterConfigs
  /\ \E n \in 0..MaxFilterChunks :
       /\ filt_chunks = [i \in 1..n |-> [chunk_index |-> i - 1]]
       /\ stats = [NoFilterStats EXCEPT !.total_chunks = n]
  /\ filt_pc = "loop"
  /\ filt_idx = 0
  /\ active_chunks = << >>
  /\ filt_log = << >>
  /\ filt_error = "none"
  /\ MotIdle
  /\ pc = "filter"
  /\ CoreIdle
  /\ ChunkIdle
  /\ DetIdle
  /\ LabelIdle

FilterNext ==
  \/ FilterChunk
  \/ FilterFinish

\* one call of filter_inactive_chunks, with any outcome for each chunk
SpecFilter == FilterInit /\ [][FilterNext]_vars

(* ---------------------- AutoLabeler.generate_proposal ------------------ *)
\* the defaults of AutoLabeler.__init__; durations are seconds, confidences
\* are in hundredths
DefaultLabelConfig ==
  [normal_max_duration |-> 2,
   suspicious_min_duration |-> 10,
   suspicious_min_frames |-> 150,
   high_confidence_threshold |-> 70]

\* the configurations tried: the defaults, other review thresholds, and a
\* normal_max_duration above suspicious_min_duration
LabelConfigs ==
  { [DefaultLabelConfig EXCEPT !.normal_max_duration = n,
                               !.high_confidence_threshold = h] :
      n \in {2, 12}, h \in {30, 40, 50, 60, 70, 80} }

\* the events tried: values on both sides of every threshold
LabelEvents ==
  [duration_seconds : {1, 2, 10, 11},
   frame_count : {150, 151},
   movement_distance : {49, 50},
   confidence_avg : {49, 50}]

CLASS_NORMAL == "comportamento_normal"

CLASS_AMBIGUOUS == "acoes_ambiguas_suspeitas"

\* a variant of the cascade that tests the movement first: used to show that
\* C26 depends on the priority of the rules
_classify_movement_first(cfg, duration, frames, movement, confidence) ==
  IF movement < 50
    THEN [class |-> CLASS_AMBIGUOUS, confidence |-> 40]
  ELSE IF duration < cfg.normal_max_duration
    THEN [class |-> CLASS_NORMAL, confidence |-> 70]
  ELSE IF duration > cfg.suspicious_min_duration /\ frames > cfg.suspicious_min_frames
    THEN [class |-> CLASS_AMBIGUOUS, confidence |-> 50]
  ELSE IF confidence < 50
    THEN [class |-> CLASS_AMBIGUOUS, confidence |-> 30]
  ELSE [class |-> CLASS_NORMAL, confidence |-> 60]

\* _classify_behavior_heuristic: the class and the classification confidence
_classify_behavior_heuristic(cfg, duration, frames, movement, confidence) ==
  IF duration < cfg.normal_max_duration
    THEN [class |-> CLASS_NORMAL, confidence |-> 70]
  ELSE IF duration > cfg.suspicious_min_duration /\ frames > cfg.suspicious_min_frames
    THEN [class |-> CLASS_AMBIGUOUS, confidence |-> 50]
  ELSE IF movement < 50
    THEN [class |-> CLASS_AMBIGUOUS, confidence |-> 40]
  ELSE IF confidence < 50
    THEN [class |-> CLASS_AMBIGUOUS, confidence |-> 30]
  ELSE [class |-> CLASS_NORMAL, confidence |-> 60]

\* a variant of needs_review that looks at the confidence only: used to show
\* that C27 depends on the class
needs_review_confidence_only(cfg, confidence, suggested_class) ==
  confidence < cfg.high_confidence_threshold

\* needs_review of generate_proposal
needs_review(cfg, confidence, suggested_class) ==
  confidence < cfg.high_confidence_threshold \/ suggested_class = CLASS_AMBIGUOUS

\* generate_proposal(event)
GenerateProposal ==
  /\ label_pc = "call"
  /\ LET c == _classify_behavior_heuristic(label_config,
                                           label_event.duration_seconds,
                                           label_event.frame_count,
                                           label_event.movement_distance,
                                           label_event.confidence_avg)
     IN proposal' = [suggested_class |-> c.class,
                     classification_confidence |-> c.confidence,
                     needs_review |-> needs_review(label_config, c.confidence, c.class),
                     event_characteristics |-> label_event]
  /\ label_pc' = "returned"
  /\ UNCHANGED << label_config, label_event >>
  /\ UNCHANGED notLabelVars

\* generate_proposal is called on an event
LabelInit ==
  /\ label_config \in LabelConfigs
  /\ label_event \in LabelEvents
  /\ label_pc = "call"
  /\ proposal = << >>
  /\ pc = "labeler"
  /\ CoreIdle
  /\ ChunkIdle
  /\ DetIdle
  /\ FiltIdle

LabelNext == GenerateProposal

\* one call of generate_proposal on any event
SpecLabel == LabelInit /\ [][LabelNext]_vars

(* ------------------- configuration of AutomatedPipeline ---------------- *)
\* the section of config.yaml a stage reads when it is executed
SectionOf(s) ==
  IF s = STAGE_CONVERSION THEN "conversion"
  ELSE IF s = STAGE_CHUNKING THEN "chunking"
  ELSE IF s = STAGE_FILTERING THEN "activity_filter"
  ELSE IF s = STAGE_DETECTION THEN "event_detector"
  ELSE IF s = STAGE_LABELING THEN "auto_labeler"
  ELSE "no_section"

\* what can be wrong with config.yaml: the file is missing, it does not parse,
\* or it parses and lacks one section; "none" is a complete configuration
ConfigValues ==
  {"missing", "unreadable", "directories", "none"}
    \cup { SectionOf(s) : s \in StageSet \ {STAGE_REVIEW} }

\* AutomatedPipeline.__init__ does not return: _load_config calls sys.exit(1),
\* or config['directories'] raises and main() exits
ConfigAbort ==
  /\ pc = "idle"
  /\ runs < MaxRuns
  /\ config \in {"missing", "unreadable", "directories"}
  /\ runs' = runs + 1
  /\ pc' = "aborted"
  /\ lastOp' = NoOp
  /\ UNCHANGED << state, file, durable, phase, crashSet, calls, crashes, faults,
                  ioFaults, mode, todo, cur, next_stage, mp4, art, resetDone, catalog,
                  auxVars >>

\* AutomatedPipeline.__init__ returns and run() begins
ConfigRunBegin ==
  /\ config \notin {"missing", "unreadable", "directories"}
  /\ RunBegin

\* a stage executes: when the section it reads is not in the configuration the
\* lookup raises inside the stage's try block and the stage is recorded as
\* failed (convert_video returns before its lookup when the MP4 exists)
ConfigFinishStage ==
  /\ FinishStage
  /\ ( config = SectionOf(next_stage)
       /\ ~(next_stage = STAGE_CONVERSION /\ Mp4Exists(cur)) )
       => lastOp'.op # "mark_stage_complete"

ConfigInit ==
  /\ RunInitWith(FALSE, << "a.dav" >>)
  /\ config \in ConfigValues

ConfigNext ==
  \/ ConfigAbort
  \/ ConfigRunBegin
  \/ PickVideo
  \/ ProcessBegin
  \/ ConfigFinishStage
  \/ Advance
  \/ ReviewGui
  \/ ReviewDone
  \/ LoopEnd

\* runs of the orchestrator over one video with any config.yaml
SpecConfig == ConfigInit /\ [][ConfigNext]_vars


(* ============================== claims ================================= *)
\* the status of (v, s) in table t; a video that is not in the table has not
\* started any stage
StatusOf(t, v, s) ==
  IF Has(t, v) /\ t[v].stages[s].status # "absent"
    THEN t[v].stages[s].status ELSE STATUS_NOT_STARTED

\* this step is a StateManager call that returned
Returned == lastOp' # NoOp /\ phase' = "running"

ResetOps == {"reset_video", "reset_stages_from", "reset_stage_only"}

\* every entry of the video's 'stages' dict is completed
EveryStageCompleted(vs) ==
  \A k \in StageKeys : vs.stages[k].status \in {"absent", STATUS_COMPLETED}

\* every stage before s in pipeline order is completed in table t
EarlierCompleted(t, v, s) ==
  \A i \in 1..(IndexOf(s) - 1) : StatusOf(t, v, ALL_STAGES[i]) = STATUS_COMPLETED

(* C1: after a crash during or right after a mutating call, the table the   *)
(* next load returns is the table before the call (in memory or in the      *)
(* file) or the table after the call, never anything else.                  *)
C1_LoadAfterCrash ==
  (phase = "restarted" /\ crashSet # {}) => state \in crashSet

(* C2: a stage status changes only along not_started -> processing          *)
(* (mark_stage_start), processing -> completed (mark_stage_complete),       *)
(* processing -> failed (mark_stage_failed) and anything -> not_started (an *)
(* explicit reset).                                                         *)
C2_Transitions ==
  [][ Returned =>
        \A v \in Videos, s \in StageSet :
          LET a == StatusOf(state, v, s)
              b == StatusOf(state', v, s)
          IN a # b =>
               \/ a = STATUS_NOT_STARTED /\ b = STATUS_PROCESSING
                    /\ lastOp'.op = "mark_stage_start"
               \/ a = STATUS_PROCESSING /\ b = STATUS_COMPLETED
                    /\ lastOp'.op = "mark_stage_complete"
               \/ a = STATUS_PROCESSING /\ b = STATUS_FAILED
                    /\ lastOp'.op = "mark_stage_failed"
               \/ b = STATUS_NOT_STARTED /\ lastOp'.op \in ResetOps ]_vars

\* the first stage, in pipeline order, that table t does not hold completed
FirstPending(t, v) ==
  IF Has(t, v) THEN FirstNotCompleted(t[v], 1) ELSE STAGE_CONVERSION

(* C3: without a reset, the orchestrator takes a video up at the first      *)
(* stage the persisted table does not hold completed, and never issues      *)
(* mark_stage_start for a stage the persisted table holds completed.        *)
C3_ResumeNoRedo ==
  [][ /\ ( /\ lastOp'.by = "run"
           /\ lastOp'.op = "mark_stage_start"
           /\ lastOp'.video \notin resetDone' )
        => StatusOf(durable, lastOp'.video, lastOp'.stage) # STATUS_COMPLETED
      /\ ( pc = "process" /\ pc' \in {"exec", "advance"} /\ cur \notin resetDone' )
        => \/ next_stage' = FirstPending(durable, cur)
           \/ /\ mode = "mp4"
              /\ lastOp'.op = "mark_stage_complete"
              /\ lastOp'.stage = FirstPending(durable, cur) ]_vars

\* at most one stage of each video is processing in table t
OneProcessing(t) ==
  \A v \in Videos :
    Cardinality({ s \in StageSet : StatusOf(t, v, s) = STATUS_PROCESSING }) <= 1

(* C4: when the orchestrator issues mark_stage_start for a stage, every     *)
(* earlier stage of the video is completed in the persisted table, and no   *)
(* video ever has two stages processing.                                    *)
C4_GatedStart ==
  [][ /\ ( lastOp'.by = "run" /\ lastOp'.op = "mark_stage_start" )
        => EarlierCompleted(_load_state(file), lastOp'.video, lastOp'.stage)
      /\ OneProcessing(state')
      /\ OneProcessing(_load_state(file')) ]_vars

(* C5: the orchestrator records conversion completed only when the MP4 was  *)
(* written whole; a partly written MP4 left by a crash is never taken for a *)
(* finished conversion.                                                     *)
C5_ConversionWhole ==
  [][ ( /\ lastOp'.by = "run"
        /\ lastOp'.op = "mark_stage_complete"
        /\ lastOp'.stage = STAGE_CONVERSION )
        => mp4'[lastOp'.video] = "full" ]_vars

(* C6: a video's aggregate status is completed iff every one of its stages  *)
(* is completed.                                                            *)
C6_CompletedIffAll ==
  \A v \in Videos :
    Has(state, v) =>
      (state[v].status = STATUS_COMPLETED <=> EveryStageCompleted(state[v]))

(* C7: while some stage of a video is failed (so not every stage is         *)
(* completed), the video's aggregate status is failed.                      *)
C7_FailedAggregate ==
  \A v \in Videos :
    ( /\ Has(state, v)
      /\ \E k \in StageKeys : state[v].stages[k].status = STATUS_FAILED
      /\ ~EveryStageCompleted(state[v]) )
      => state[v].status = STATUS_FAILED

(* C8: get_next_pending_stage returns conversion for a video that is not in *)
(* the table, none when the aggregate status is completed or failed, and    *)
(* otherwise the earliest stage in pipeline order that is not completed.    *)
C8_NextPending ==
  \A v \in Videos :
    LET r == get_next_pending_stage(state, v) IN
    /\ ~Has(state, v) => r = STAGE_CONVERSION
    /\ ( Has(state, v) /\ state[v].status \in {STATUS_COMPLETED, STATUS_FAILED} )
         => r = None
    /\ ( Has(state, v) /\ state[v].status \notin {STATUS_COMPLETED, STATUS_FAILED} )
         => IF \A s \in StageSet : state[v].stages[s].status = STATUS_COMPLETED
              THEN r = None
              ELSE /\ r \in StageSet
                   /\ state[v].stages[r].status # STATUS_COMPLETED
                   /\ EarlierCompleted(state, v, r)

\* a call returned and the next pending stage of a video in progress lies
\* after conversion
C8_Witness ==
  /\ lastOp.by = "api"
  /\ phase = "running"
  /\ \E v \in CallVideos :
       /\ state[v].status \in {STATUS_PROCESSING, STATUS_NOT_STARTED}
       /\ get_next_pending_stage(state, v) \in StageSet \ {STAGE_CONVERSION}

\* stage s of v is failed and every stage before it is completed
FailedAt(t, v, s) ==
  /\ Has(t, v)
  /\ t[v].stages[s].status = STATUS_FAILED
  /\ EarlierCompleted(t, v, s)

(* C9: with the stages before S completed and S failed,                     *)
(* get_next_pending_stage keeps returning none while no reset is performed, *)
(* and returns S after reset_stage_only(video, S) as well as after          *)
(* reset_stages_from(video, S).                                             *)
C9_ResetThenPending ==
  [][ Returned =>
        \A v \in Videos, s \in StageSet :
          /\ ( /\ FailedAt(state, v, s)
               /\ lastOp' \in { [op |-> o, video |-> v, stage |-> s, by |-> b] :
                                 o \in {"reset_stage_only", "reset_stages_from"},
                                 b \in {"api", "run"} } )
               => get_next_pending_stage(state', v) = s
          /\ ( /\ FailedAt(state, v, s)
               /\ get_next_pending_stage(state, v) = None
               /\ FailedAt(state', v, s)
               /\ ~(lastOp'.op \in ResetOps /\ lastOp'.video = v) )
               => get_next_pending_stage(state', v) = None ]_vars

\* this step is mark_stage_complete(v, review), and it returned
CompletesReview(v) ==
  /\ Returned
  /\ lastOp'.op = "mark_stage_complete"
  /\ lastOp'.video = v
  /\ lastOp'.stage = STAGE_REVIEW

(* C10 as stated: after mark_stage_complete(video, review),                 *)
(* is_video_completed(video) is true and get_next_pending_stage(video)      *)
(* returns none.                                                            *)
C10_Original ==
  [][ \A v \in Videos :
        CompletesReview(v) =>
          /\ is_video_completed(state', v)
          /\ get_next_pending_stage(state', v) = None ]_vars

(* C10 amended: after mark_stage_complete(video, review) on a video whose   *)
(* five earlier stages are completed, is_video_completed(video) is true and *)
(* get_next_pending_stage(video) returns none.                              *)
C10_LastStage ==
  [][ \A v \in Videos :
        ( CompletesReview(v) /\ Has(state, v) /\ EarlierCompleted(state, v, STAGE_REVIEW) )
          => /\ is_video_completed(state', v)
             /\ get_next_pending_stage(state', v) = None ]_vars

\* mark_stage_complete(video, review) returned and the video is completed
C10_Witness ==
  /\ phase = "running"
  /\ lastOp.op = "mark_stage_complete"
  /\ lastOp.stage = STAGE_REVIEW
  /\ is_video_completed(state, lastOp.video)
  /\ get_next_pending_stage(state, lastOp.video) = None


\* the step is taken during v's turn in the loop of run(), before any stage
\* of v was entered
TurnOf(v) ==
  \/ pc = "loop" /\ todo # << >> /\ Head(todo) = v
  \/ pc = "process" /\ cur = v

(* C11: in run(), a video whose aggregate status is failed when its turn    *)
(* comes gets no mark_stage_start unless its state is reset first: its turn *)
(* ends with no stage entered, in the .dav path and in the .mp4 path.       *)
C11_NoAutoRetry ==
  [][ \A v \in Videos :
        ( /\ TurnOf(v)
          /\ Has(state, v)
          /\ state[v].status = STATUS_FAILED
          /\ lastOp'.op \notin ResetOps )
        => /\ lastOp'.op # "mark_stage_start"
           /\ \/ pc' \in {"loop", "idle"}
              \/ pc' = "process" /\ cur' = v /\ state'[v].status = STATUS_FAILED ]_vars

\* the turn of a failed video has come in the .mp4 path, where run() does not
\* ask is_video_failed
C11_Witness ==
  /\ mode = "mp4"
  /\ pc = "process"
  /\ Has(state, cur)
  /\ state[cur].status = STATUS_FAILED
  /\ cur \notin resetDone

(* C12: in an orchestrator run, a stage that was recorded failed is not     *)
(* recorded completed afterwards, and its video does not become completed,  *)
(* unless a reset happened in between (the review stage included).          *)
C12_FailedStays ==
  [][ \A v \in Videos, s \in StageSet :
        ( /\ lastOp'.by = "run"
          /\ Returned
          /\ lastOp'.op \notin ResetOps
          /\ StatusOf(state, v, s) = STATUS_FAILED )
        => /\ StatusOf(state', v, s) # STATUS_COMPLETED
           /\ ~is_video_completed(state', v) ]_vars

\* processing the current video raises outside the stage runners: reloading
\* an earlier stage's JSON artifact fails, or 'proposals' is unbound
Raises ==
  \/ /\ mode = "dav"
     /\ pc = "process"
     /\ get_next_pending_stage(state, cur) \notin {None, STAGE_CONVERSION}
     /\ ResumeStep(get_next_pending_stage(state, cur), cur) = FailOf(PIPELINE_KEY)
  \/ /\ mode = "mp4"
     /\ pc = "advance"
     /\ Mp4Step(next_stage) = "raise"

(* C13: an exception raised while run() processes one video, in the .dav    *)
(* path or in the .mp4 path, is recorded for that video by mark_stage_failed *)
(* and the loop goes on with the remaining videos; the run does not end.    *)
C13_ExceptionCaught ==
  [][ ( Raises /\ phase' # "crashed" )
        => /\ lastOp'.op = "mark_stage_failed"
           /\ lastOp'.video = cur
           /\ lastOp'.by = "run"
           /\ pc' = "loop"
           /\ todo' = todo ]_vars


(* C14: whenever a mutating StateManager call returns, the table stored in  *)
(* the state file is the in-memory table, whatever the outcome of the file  *)
(* write.                                                                   *)
C14_WriteThrough ==
  [][ ( Returned /\ lastOp'.op \in MutatingOps )
        => _load_state(file') = state' ]_vars

(* C15: with two workers that own disjoint videos and share the state file, *)
(* after every call the persisted table holds, for each of the two videos,  *)
(* the latest record its owner wrote: no worker's write reverts the other   *)
(* video's record.                                                          *)
C15_NoLostUpdate ==
  pc = "workers" =>
    /\ _load_state(file)[Worker1Video] = state[Worker1Video]
    /\ _load_state(file)[Worker2Video] = peer[Worker2Video]


\* the record of stage key k of video v in table t; a video that is not in the
\* table has the records initialize_video gives it
RecordOf(t, v, k) ==
  IF Has(t, v) THEN t[v].stages[k]
  ELSE IF k \in StageSet THEN FreshStage ELSE NoStage

(* C16: reset_stage_only(video, S) sets S to not_started and changes no     *)
(* other stage record of the video and no other video; reset_stages_from    *)
(* (video, S) sets S and every later stage to not_started and changes no    *)
(* earlier stage record of the video and no other video.                    *)
C16_ResetFrame ==
  [][ ( Returned /\ lastOp'.stage \in StageSet
        /\ lastOp'.op \in {"reset_stage_only", "reset_stages_from"} )
        => LET v == lastOp'.video
               S == lastOp'.stage
               hit == IF lastOp'.op = "reset_stage_only" THEN {S}
                      ELSE { k \in StageSet : IndexOf(k) >= IndexOf(S) }
           IN /\ \A k \in hit : state'[v].stages[k].status = STATUS_NOT_STARTED
              /\ \A k \in StageKeys \ hit : state'[v].stages[k] = RecordOf(state, v, k)
              /\ \A u \in Videos \ {v} : state'[u] = state[u] ]_vars

\* reset_stage_only returned on a video that has completed stages before and
\* after the stage it reset
C16_Witness ==
  /\ phase = "running"
  /\ lastOp.op = "reset_stage_only"
  /\ lastOp.stage = STAGE_FILTERING
  /\ state[lastOp.video].stages[STAGE_FILTERING].status = STATUS_NOT_STARTED
  /\ state[lastOp.video].stages[STAGE_CHUNKING].status = STATUS_COMPLETED
  /\ state[lastOp.video].stages[STAGE_DETECTION].status = STATUS_COMPLETED

(* C17: in every reachable state each completed stage record carries an     *)
(* output reference and each failed stage record carries an error message.  *)
C17_OutputAndError ==
  \A v \in Videos, k \in StageKeys :
    Has(state, v) =>
      /\ state[v].stages[k].status = STATUS_COMPLETED => state[v].stages[k].output
      /\ state[v].stages[k].status = STATUS_FAILED => state[v].stages[k].error


\* the source opens and reports a positive frame count and fps, and a chunk
\* holds at least one frame
ValidInput ==
  /\ cap.opened
  /\ cap.total_frames > 0
  /\ cap.fps.num > 0
  /\ cap.fps.num * chunk_duration >= cap.fps.den

\* the frame ranges of the list cs are contiguous and cover [0, total)
Contiguous(cs, total) ==
  /\ Len(cs) >= 1
  /\ cs[1].start_frame = 0
  /\ cs[Len(cs)].end_frame = total
  /\ \A i \in 1..Len(cs) : cs[i].start_frame < cs[i].end_frame
  /\ \A i \in 1..(Len(cs) - 1) : cs[i + 1].start_frame = cs[i].end_frame

(* C18: for every valid (total_frames, fps, chunk_duration) and every       *)
(* outcome of the extractions, the chunks chunk_video returns are, in index *)
(* order, contiguous and non-overlapping, and cover exactly                 *)
(* [0, total_frames).                                                       *)
C18_ChunksCover ==
  ( chunk_pc = "returned" /\ ValidInput )
    => Contiguous(chunks_metadata, cap.total_frames)

(* C19: frames_per_chunk = floor(fps * chunk_duration), num_chunks =        *)
(* ceil(total_frames / frames_per_chunk), chunk i spans [i*frames_per_chunk, *)
(* min((i+1)*frames_per_chunk, total_frames)) and every chunk but the last  *)
(* has frames_per_chunk frames; 10000 frames at 25 fps in chunks of 180 s   *)
(* give 3 chunks, the second [4500,9000), the third [9000,10000) of 40 s.   *)
C19_ChunkGrid ==
  ( chunk_pc \in {"loop", "returned"} /\ ValidInput )
    => /\ frames_per_chunk * cap.fps.den <= cap.fps.num * chunk_duration
       /\ cap.fps.num * chunk_duration < (frames_per_chunk + 1) * cap.fps.den
       /\ (num_chunks - 1) * frames_per_chunk < cap.total_frames
       /\ cap.total_frames <= num_chunks * frames_per_chunk
       /\ \A j \in 1..Len(chunks_metadata) :
            LET c == chunks_metadata[j]
                i == c.chunk_index
            IN /\ i \in 0..(num_chunks - 1)
               /\ c.start_frame = i * frames_per_chunk
               /\ c.end_frame = IF (i + 1) * frames_per_chunk <= cap.total_frames
                                  THEN (i + 1) * frames_per_chunk
                                  ELSE cap.total_frames
               /\ c.frame_count = c.end_frame - c.start_frame
               /\ i < num_chunks - 1 => c.frame_count = frames_per_chunk
               /\ c.duration_seconds.num * cap.fps.num
                    = c.frame_count * cap.fps.den * c.duration_seconds.den
       /\ ( cap = ExampleInput.cap /\ chunk_duration = ExampleInput.chunk_duration )
            => /\ frames_per_chunk = 4500
               /\ num_chunks = 3
               /\ \A j \in 1..Len(chunks_metadata) :
                    LET c == chunks_metadata[j] IN
                    /\ c.chunk_index = 1 => c.start_frame = 4500 /\ c.end_frame = 9000
                    /\ c.chunk_index = 2 =>
                         /\ c.start_frame = 9000 /\ c.end_frame = 10000
                         /\ c.duration_seconds.num = 40 * c.duration_seconds.den

\* chunk_video returned the three chunks of the worked example
C19_Witness ==
  /\ chunk_pc = "returned"
  /\ cap = ExampleInput.cap
  /\ chunk_duration = ExampleInput.chunk_duration
  /\ Len(chunks_metadata) = 3
  /\ chunks_metadata[3].frame_count = 1000

\* the source cannot be opened or reports a frame count or fps that is not
\* positive
InvalidSource ==
  \/ ~cap.opened
  \/ cap.total_frames <= 0
  \/ cap.fps.num <= 0

(* C20: for a source that cannot be opened or that reports total_frames <= 0 *)
(* or fps <= 0, chunk_video fails with an error: it returns no chunk list   *)
(* and writes no chunk index.                                               *)
C20_InvalidSource ==
  ( pc = "chunker" /\ InvalidSource )
    => /\ chunk_pc # "returned"
       /\ chunks_index = "none"


\* the chunk with index i is in the list cs
InList(cs, i) == \E j \in 1..Len(cs) : cs[j].chunk_index = i

(* C21: when an extraction yields fewer than 90% of the expected frames,    *)
(* the chunk is still in the returned list and in the chunk index, it is    *)
(* flagged as incomplete, it is not retried, and all remaining chunks of    *)
(* the video are still processed.                                           *)
C21_IncompleteKept ==
  chunk_pc = "returned" =>
    \A j \in 1..Len(extractions) :
      LET x == extractions[j] IN
      ( x.success /\ 10 * x.frames_written < 9 * x.expected_frames )
        => /\ InList(chunks_metadata, x.chunk_index)
           /\ InList(chunks_index.chunks, x.chunk_index)
           /\ x.warned
           /\ \A k \in 1..Len(extractions) :
                extractions[k].chunk_index = x.chunk_index => k = j
           /\ Len(extractions) = num_chunks

\* the (frame, track id, confidence, bbox) of every detection of the frames the
\* sample rate keeps, in the order of the stream, from frame n on
RECURSIVE SampledFrom(_, _, _)
SampledFrom(rs, rate, n) ==
  IF n > Len(rs) THEN << >>
  ELSE (IF n % rate = 0
          THEN [k \in 1..Len(rs[n]) |->
                  [frame |-> n - 1, track_id |-> rs[n][k].track_id,
                   confidence |-> rs[n][k].confidence, bbox |-> rs[n][k].bbox]]
        ELSE << >>) \o SampledFrom(rs, rate, n + 1)

\* the bbox is outside the area limits
FailsAreaGate(b) ==
  LET area == (b.x2 - b.x1) * (b.y2 - b.y1) IN
  area < det_config.min_bbox_area \/ area > det_config.max_bbox_area

\* height/width of the bbox is outside the aspect ratio limits
FailsAspectGate(b) ==
  LET w == b.x2 - b.x1
      h == b.y2 - b.y1
  IN \/ w <= 0
     \/ h * det_config.min_aspect_ratio.den < det_config.min_aspect_ratio.num * w
     \/ h * det_config.max_aspect_ratio.den > det_config.max_aspect_ratio.num * w

SurvivesOf(id, d) ==
  d.track_id = id /\ ~FailsAreaGate(d.bbox) /\ ~FailsAspectGate(d.bbox)

\* the detections of track id that survive the bbox gate, in stream order
Survivors(id) ==
  LET all == SampledFrom(results, det_config.sample_rate, 1)
      Keep(d) == SurvivesOf(id, d)
  IN SelectSeq(all, Keep)

\* the gates, each on its own
PassesLength(ds) == Len(ds) >= det_config.min_track_length

PassesDuration(ds) ==
  ds[Len(ds)].frame - ds[1].frame >= det_config.min_duration_seconds * det_config.fps

PassesConfidence(ds) ==
  SumConf(ds) >= det_config.min_track_confidence_avg * Len(ds)

PassesMovement(ds) ==
  LET a == ds[1].bbox
      b == ds[Len(ds)].bbox
      dx2 == (b.x1 + b.x2) - (a.x1 + a.x2)
      dy2 == (b.y1 + b.y2) - (a.y1 + a.y2)
      m2 == 2 * det_config.min_track_movement_pixels
  IN ~det_config.require_motion_for_event \/ m2 <= 0 \/ dx2 * dx2 + dy2 * dy2 >= m2 * m2

EventsOfTrack(id) == { j \in 1..Len(events) : events[j].track_id = id }

(* C22: every track built in detect_events_in_chunk yields exactly one      *)
(* Event if it passes the length, duration, average confidence and (when    *)
(* require_motion_for_event is on) movement gates, and no Event if it fails *)
(* one of them; the Event's frame_count is the number of detections of the  *)
(* track that survived the bbox gate.                                       *)
C22_OneEventPerTrack ==
  det_pc = "returned" =>
    /\ \A i \in 1..Len(tracks) :
         LET id == tracks[i].track_id
             ds == tracks[i].detections
             passes == /\ PassesLength(ds)
                       /\ PassesDuration(ds)
                       /\ PassesConfidence(ds)
                       /\ PassesMovement(ds)
         IN /\ passes => /\ Cardinality(EventsOfTrack(id)) = 1
                         /\ \A j \in EventsOfTrack(id) :
                              events[j].frame_count = Len(Survivors(id))
            /\ ~passes => EventsOfTrack(id) = {}
    /\ \A j \in 1..Len(events) :
         \E i \in 1..Len(tracks) : tracks[i].track_id = events[j].track_id

\* a call returned an event for a track that lost a detection to the bbox gate,
\* and no event for another track
C22_Witness ==
  /\ det_pc = "returned"
  /\ Len(tracks) > Len(events)
  /\ \E j \in 1..Len(events) :
       LET all == SampledFrom(results, det_config.sample_rate, 1) IN
       /\ events[j].frame_count >= 2
       /\ \E k \in 1..Len(all) :
            /\ all[k].track_id = events[j].track_id
            /\ FailsAreaGate(all[k].bbox)

(* C23: running detect_events_in_chunk twice on an identical detection      *)
(* stream with identical thresholds yields identical event sets, equal in   *)
(* every field of every event.                                              *)
C23_Deterministic ==
  ( det_pc = "returned" /\ Len(first_events) = 1 ) => events = first_events[1]

\* the chunk with index i is in the list of active chunks
Accepted(i) == \E j \in 1..Len(active_chunks) : active_chunks[j].chunk_index = i

(* C24: for each chunk in filter_inactive_chunks the person phase runs only *)
(* after the motion phase has passed; the chunk is accepted if and only if  *)
(* the motion phase passed and person_frame_count >= min_person_frames; an  *)
(* accepted chunk records activity_score = person_frame_count /             *)
(* total_sampled_frames; a chunk failing motion is rejected without any     *)
(* Detector call.                                                           *)
C24_TwoPhases ==
  filt_pc \in {"loop", "returned"} =>
    \A k \in 1..Len(filt_log) :
      LET e == filt_log[k] IN
      /\ e.detector_ran => e.motion_ran /\ e.has_motion
      /\ Accepted(e.chunk_index)
           <=> ( e.has_motion /\ e.person_frames >= filt_config.min_person_frames )
      /\ \A j \in 1..Len(active_chunks) :
           active_chunks[j].chunk_index = e.chunk_index
             => /\ active_chunks[j].activity_score.den > 0
                /\ active_chunks[j].activity_score.num * e.total_sampled
                     = e.person_frames * active_chunks[j].activity_score.den
      /\ ( e.motion_ran /\ ~e.has_motion )
           => ~e.detector_ran /\ ~Accepted(e.chunk_index)

\* a call returned after accepting one chunk, rejecting one for motion and
\* rejecting one for persons although its detector found some
C24_Witness ==
  /\ filt_pc = "returned"
  /\ stats.active_chunks >= 1
  /\ stats.motion_rejected >= 1
  /\ \E k \in 1..Len(filt_log) :
       /\ filt_log[k].detector_ran
       /\ filt_log[k].person_frames >= 1
       /\ ~Accepted(filt_log[k].chunk_index)

(* C25: filter_inactive_chunks partitions its input: for every chunk list   *)
(* and every per-chunk outcome each chunk is counted exactly once as        *)
(* accepted, rejected for motion or rejected for person, so total_chunks =  *)
(* active_chunks + inactive_chunks and inactive_chunks = motion_rejected +  *)
(* person_rejected.                                                         *)
C25_Partition ==
  filt_pc \in {"returned", "raised"} =>
    /\ filt_pc = "returned"
    /\ stats.total_chunks = stats.active_chunks + stats.inactive_chunks
    /\ stats.inactive_chunks = stats.motion_rejected + stats.person_rejected

ShortRule == label_event.duration_seconds < label_config.normal_max_duration

LongRule ==
  /\ label_event.duration_seconds > label_config.suspicious_min_duration
  /\ label_event.frame_count > label_config.suspicious_min_frames

StillRule == label_event.movement_distance < 50

UnsureRule == label_event.confidence_avg < 50

(* C26: _classify_behavior_heuristic is a first-match-wins cascade: duration *)
(* < normal_max_duration gives the normal class; else duration >            *)
(* suspicious_min_duration and frame_count > suspicious_min_frames gives    *)
(* the ambiguous class; else movement < 50 gives the ambiguous class; else  *)
(* confidence < 0.5 gives the ambiguous class; else the normal class.       *)
C26_Cascade ==
  label_pc = "returned" =>
    /\ ShortRule => proposal.suggested_class = CLASS_NORMAL
    /\ ( ~ShortRule /\ LongRule ) => proposal.suggested_class = CLASS_AMBIGUOUS
    /\ ( ~ShortRule /\ ~LongRule /\ StillRule )
         => proposal.suggested_class = CLASS_AMBIGUOUS
    /\ ( ~ShortRule /\ ~LongRule /\ ~StillRule /\ UnsureRule )
         => proposal.suggested_class = CLASS_AMBIGUOUS
    /\ ( ~ShortRule /\ ~LongRule /\ ~StillRule /\ ~UnsureRule )
         => proposal.suggested_class = CLASS_NORMAL

\* a proposal for an event that matches the first rule and later rules too
C26_Witness ==
  /\ label_pc = "returned"
  /\ ShortRule
  /\ LongRule
  /\ StillRule
  /\ UnsureRule
  /\ proposal.suggested_class = CLASS_NORMAL

(* C27: for every proposal of generate_proposal, needs_review is true if    *)
(* and only if classification_confidence < high_confidence_threshold or     *)
(* suggested_class is the ambiguous class.                                  *)
C27_NeedsReview ==
  label_pc = "returned" =>
    ( proposal.needs_review
        <=> \/ proposal.classification_confidence < label_config.high_confidence_threshold
            \/ proposal.suggested_class = "acoes_ambiguas_suspeitas" )

\* an ambiguous proposal whose confidence reaches the threshold, flagged for
\* review
C27_Witness ==
  /\ label_pc = "returned"
  /\ proposal.suggested_class = "acoes_ambiguas_suspeitas"
  /\ proposal.classification_confidence >= label_config.high_confidence_threshold
  /\ proposal.needs_review

(* C28: a configuration error (missing or unreadable configuration file, or *)
(* a configuration lacking a required section or key) aborts the whole run  *)
(* before any stage of any video is started: no stage of any video has been *)
(* started or recorded.                                                     *)
C28_ConfigAborts ==
  config # "none" =>
    \A v \in Videos : ~Has(state, v) /\ ~Has(_load_state(file), v)

(* C29: in detect_events_in_chunk a detection whose bbox fails the area     *)
(* gate or the aspect-ratio gate is dropped before grouping: it is appended *)
(* to no track and contributes to no track's length, start or end frame,    *)
(* duration, confidence statistics, movement distance or bbox_sequence.     *)
C29_DroppedBeforeGrouping ==
  det_pc = "returned" =>
    /\ \A i \in 1..Len(tracks) :
         LET kept == Survivors(tracks[i].track_id)
             ds == tracks[i].detections
         IN /\ Len(ds) = Len(kept)
            /\ \A k \in 1..Len(ds) :
                 /\ ds[k].frame = kept[k].frame
                 /\ ds[k].bbox = kept[k].bbox
                 /\ ds[k].confidence = kept[k].confidence
                 /\ ~FailsAreaGate(ds[k].bbox)
                 /\ ~FailsAspectGate(ds[k].bbox)
    /\ \A j \in 1..Len(events) :
         LET kept == Survivors(events[j].track_id)
             n == Len(kept)
         IN /\ n >= 1
            /\ events[j].frame_count = n
            /\ events[j].start_frame = kept[1].frame
            /\ events[j].end_frame = kept[n].frame
            /\ events[j].duration_seconds
                 = [num |-> kept[n].frame - kept[1].frame, den |-> det_config.fps]
            /\ events[j].confidence_avg = [num |-> SumConf(kept), den |-> n]
            /\ \A k \in 1..n : /\ events[j].confidence_min <= kept[k].confidence
                               /\ events[j].confidence_max >= kept[k].confidence
            /\ \E k \in 1..n : events[j].confidence_min = kept[k].confidence
            /\ \E k \in 1..n : events[j].confidence_max = kept[k].confidence
            /\ events[j].movement_distance.sq4
                 = ((kept[n].bbox.x1 + kept[n].bbox.x2) - (kept[1].bbox.x1 + kept[1].bbox.x2))
                     * ((kept[n].bbox.x1 + kept[n].bbox.x2) - (kept[1].bbox.x1 + kept[1].bbox.x2))
                   + ((kept[n].bbox.y1 + kept[n].bbox.y2) - (kept[1].bbox.y1 + kept[1].bbox.y2))
                     * ((kept[n].bbox.y1 + kept[n].bbox.y2) - (kept[1].bbox.y1 + kept[1].bbox.y2))
            /\ events[j].bbox_sequence = [k \in 1..n |-> kept[k].bbox]

\* a call returned an event for a track one of whose detections, the last one
\* of the stream, failed the area gate
C29_Witness ==
  /\ det_pc = "returned"
  /\ \E j \in 1..Len(events) :
       LET all == SampledFrom(results, det_config.sample_rate, 1) IN
       /\ Len(all) >= 1
       /\ all[Len(all)].track_id = events[j].track_id
       /\ FailsAreaGate(all[Len(all)].bbox)
       /\ events[j].end_frame < all[Len(all)].frame

FirstFailed(ds) ==
  IF ~PassesLength(ds) THEN "rejected_track_length"
  ELSE IF ~PassesDuration(ds) THEN "rejected_duration"
  ELSE IF ~PassesConfidence(ds) THEN "rejected_confidence"
  ELSE IF ~PassesMovement(ds) THEN "rejected_movement"
  ELSE "accepted"

TracksWith(outcome) ==
  { i \in 1..Len(tracks) : FirstFailed(tracks[i].detections) = outcome }

(* C30: in detect_events_in_chunk the gates are applied in the order        *)
(* length, duration, average confidence, movement, and each track is        *)
(* counted under exactly one outcome, the first gate it fails or accepted,  *)
(* so the five counters add up to total_tracks; a track that passes the     *)
(* first three gates and moves less than min_track_movement_pixels with     *)
(* require_motion on is counted as rejected at the movement gate.           *)
C30_GateOrder ==
  det_pc = "returned" =>
    /\ filter_stats.total_tracks = Len(tracks)
    /\ \A o \in {"rejected_track_length", "rejected_duration", "rejected_confidence",
                  "rejected_movement", "accepted"} :
         filter_stats[o] = Cardinality(TracksWith(o))
    /\ filter_stats.rejected_track_length + filter_stats.rejected_duration
         + filter_stats.rejected_confidence + filter_stats.rejected_movement
         + filter_stats.accepted = filter_stats.total_tracks
    /\ filter_stats.accepted = Len(events)

\* a call returned with a track rejected at the movement gate after passing
\* the three gates before it, and with a track that fails both the length and
\* the duration gate
C30_Witness ==
  /\ det_pc = "returned"
  /\ filter_stats.rejected_movement = 1
  /\ \E i \in 1..Len(tracks) :
       LET ds == tracks[i].detections IN
       /\ PassesLength(ds) /\ PassesDuration(ds) /\ PassesConfidence(ds)
       /\ ~PassesMovement(ds)
       /\ EventsOfTrack(tracks[i].track_id) = {}
  /\ \E i \in 1..Len(tracks) :
       ~PassesLength(tracks[i].detections) /\ ~PassesDuration(tracks[i].detections)

(* C31: detect_events_in_chunk verifies that the frame index is strictly    *)
(* increasing within each track_id group, so a stream that reports the same *)
(* track_id twice for one frame is not silently aggregated: the frames of   *)
(* the detections behind every emitted Event are strictly increasing, and   *)
(* start_frame < end_frame whenever frame_count > 1.                        *)
C31_FramesIncrease ==
  det_pc = "returned" =>
    \A j \in 1..Len(events) :
      /\ events[j].frame_count > 1 => events[j].start_frame < events[j].end_frame
      /\ \A i \in 1..Len(tracks) :
           tracks[i].track_id = events[j].track_id =>
             /\ Len(events[j].bbox_sequence) = Len(tracks[i].detections)
             /\ \A k \in 1..(Len(tracks[i].detections) - 1) :
                  tracks[i].detections[k].frame < tracks[i].detections[k + 1].frame

\* the indices of the frames _detect_motion samples: every
\* motion_sample_rate-th frame from the first one
SampledIdx == { i \in 0..(Len(video) - 1) : i % mot_config.motion_sample_rate = 0 }

\* the changed-pixel fraction of sampled frame i against the sampled frame
\* before it, as a pair changed/total
ChangedOf(i) ==
  LET a == video[i - mot_config.motion_sample_rate + 1]
      b == video[i + 1]
  IN [changed |-> Cardinality({ p \in 1..Len(b) :
                                  a[p] - b[p] > PixelDiffThreshold
                                    \/ b[p] - a[p] > PixelDiffThreshold }),
      total |-> Len(b)]

\* the sampled frames whose pair exceeds motion_threshold
MotionHits ==
  { i \in SampledIdx \ {0} :
      ChangedOf(i).changed * mot_config.motion_threshold.den
        > mot_config.motion_threshold.num * ChangedOf(i).total }

(* C32: _detect_motion returns true iff some pair of consecutive sampled    *)
(* frames has a changed-pixel fraction strictly above motion_threshold;     *)
(* each sampled frame is compared with the sampled frame before it, and no  *)
(* frame is read after the first pair that exceeds the threshold.           *)
C32_MotionAnyPair ==
  mot_pc = "returned" =>
    /\ motion_detected <=> MotionHits # {}
    /\ \A k \in 1..Len(read_log) :
         /\ read_log[k].index = (k - 1) * mot_config.motion_sample_rate
         /\ k > 1 => read_log[k].against = (k - 2) * mot_config.motion_sample_rate
    /\ MotionHits # {} =>
         \E first \in MotionHits :
           /\ \A i \in MotionHits : first <= i
           /\ read_log[Len(read_log)].index = first
           /\ cap_pos = first + 1
    /\ MotionHits = {} => Len(read_log) = Cardinality(SampledIdx)

\* a call returned true at a pair that is not the last one of the chunk, after
\* a pair whose changed fraction equals the threshold
C32_Witness ==
  /\ mot_pc = "returned"
  /\ motion_detected
  /\ cap_pos < Len(video)
  /\ \E k \in 2..(Len(read_log) - 1) :
       ChangedOf(read_log[k].index).changed * mot_config.motion_threshold.den
         = mot_config.motion_threshold.num * ChangedOf(read_log[k].index).total

(* C33: chunk i has start_ts = start_wallclock + i*chunk_duration and       *)
(* end_ts = start_ts + (end_frame - start_frame)/fps; every chunk other     *)
(* than the last lasts chunk_duration exactly, so the end_ts of chunk i is  *)
(* the start_ts of chunk i+1, for every valid fps (non-integer frame rates  *)
(* included) and chunk_duration.                                            *)
C33_TimestampsMeet ==
  ( chunk_pc \in {"loop", "returned"} /\ ValidInput )
    => \A j \in 1..Len(chunks_metadata) :
         LET c == chunks_metadata[j]
             i == c.chunk_index
         IN /\ c.start_timestamp.num = i * chunk_duration * c.start_timestamp.den
            /\ (c.end_timestamp.num * c.start_timestamp.den
                  - c.start_timestamp.num * c.end_timestamp.den) * cap.fps.num
                 = (c.end_frame - c.start_frame) * cap.fps.den
                     * c.end_timestamp.den * c.start_timestamp.den
            /\ i < num_chunks - 1 =>
                 /\ c.duration_seconds.num = chunk_duration * c.duration_seconds.den
                 /\ c.end_timestamp.num = (i + 1) * chunk_duration * c.end_timestamp.den

(* C34: an empty intermediate result is a legitimate outcome and not an     *)
(* error: filter_inactive_chunks given zero chunks returns an empty list    *)
(* without raising (as detection does for zero active chunks and labeling   *)
(* for zero events), so that the stage is recorded completed, not failed.   *)
C34_EmptyIsNotError ==
  ( pc = "filter" /\ filt_chunks = << >> /\ filt_pc # "loop" )
    => /\ filt_pc = "returned"
       /\ filt_error = "none"
       /\ active_chunks = << >>

\* this step is run() returning normally: the loop over the videos is done
RunReturns == pc = "loop" /\ todo = << >> /\ pc' = "idle" /\ phase' = phase

\* the videos the loop of run() goes over
Listed(v) ==
  /\ \E i \in 1..Len(catalog) : catalog[i] = v
  /\ mode = "dav" \/ Mp4Exists(v)

(* C35: when AutomatedPipeline.run returns normally, every video it         *)
(* processed has aggregate status completed or failed; none is left in      *)
(* processing or not_started, and a video all of whose stages succeeded is  *)
(* completed, in the .dav path and in the converted .mp4 path alike.        *)
C35_RunEndsSettled ==
  [][ RunReturns =>
        \A v \in Videos :
          Listed(v) => /\ Has(state, v)
                       /\ state[v].status \in {STATUS_COMPLETED, STATUS_FAILED} ]_vars

(* C36: in every state reachable through the orchestrator and the           *)
(* StateManager, each video's stages map has exactly the six pipeline       *)
(* stages as keys, each with a status among not_started, processing,        *)
(* completed and failed, so that every recorded failure belongs to a stage  *)
(* that reset_stage_only or reset_stages_from can reset.                    *)
C36_SixStages ==
  \A v \in Videos :
    Has(state, v) =>
      /\ \A k \in StageKeys :
           state[v].stages[k].status # "absent" <=> k \in StageSet
      /\ \A s \in StageSet :
           state[v].stages[s].status \in
             {STATUS_NOT_STARTED, STATUS_PROCESSING, STATUS_COMPLETED, STATUS_FAILED}
      /\ state[v].error # None => state[v].error \in StageSet

(* C37: the artifacts of different videos are kept apart: the chunk index,  *)
(* active-chunk report, events summary and proposals document of one video  *)
(* are written where no other video writes or reads, so no step overwrites  *)
(* an artifact of another video and no stage takes another video's artifact *)
(* as its input.                                                            *)
C37_ArtifactsApart ==
  [][ /\ \A d \in Dirs, s \in ArtStages :
           ( art[d][s] \in Videos /\ art'[d][s] \in Videos ) => art'[d][s] = art[d][s]
      /\ ( pc' = "exec" /\ next_stage' \in ArtStages \ {STAGE_CHUNKING} )
           => art'[IF mode = "dav" THEN cur' ELSE "shared"][Pred(next_stage')] = cur'
    ]_vars

\* the stage records of v that the call (op, s) is meant to leave alone
KeptKeys(op, s) ==
  IF op = "initialize_video" THEN StageKeys
  ELSE IF op = "reset_stages_from"
    THEN { k \in StageSet : s \in StageSet /\ IndexOf(k) < IndexOf(s) }
  ELSE StageKeys \ {s}

(* C38: initialize_video is idempotent and non-destructive: called for a    *)
(* video already in the state table it leaves the whole table (and the      *)
(* state file) unchanged, so the implicit initialization inside             *)
(* mark_stage_start, mark_stage_complete, mark_stage_failed and the stage   *)
(* resets never erases recorded progress of a known video.                  *)
C38_InitializeIdempotent ==
  [][ ( Returned /\ lastOp'.op # "reset_video" /\ Has(state, lastOp'.video) ) =>
        LET v == lastOp'.video IN
        /\ Has(state', v)
        /\ \A k \in KeptKeys(lastOp'.op, lastOp'.stage) :
             state'[v].stages[k] = state[v].stages[k]
        /\ \A u \in Videos \ {v} : state'[u] = state[u]
        /\ lastOp'.op = "initialize_video" => state' = state /\ file' = file
    ]_vars

\* initialize_video returned for a video whose conversion is recorded completed
C38_Witness ==
  /\ lastOp.op = "initialize_video"
  /\ phase = "running"
  /\ Has(state, lastOp.video)
  /\ state[lastOp.video].stages[STAGE_CONVERSION].status = STATUS_COMPLETED

(* C39: the event_ids of the events returned by one detect_events_batch     *)
(* call are pairwise distinct, for every number of chunks and every         *)
(* assignment of track ids by the tracker, track ids that repeat from one   *)
(* chunk to another included.                                               *)
C39_EventIdsDistinct ==
  batch_pc = "returned" =>
    \A i, j \in 1..Len(all_events) :
      i # j => all_events[i].event_id # all_events[j].event_id

====
